---- MODULE Spec2Model ----
(***************************************************************************)
(* Order management over a spreadsheet-backed inventory (server.py).       *)
(*                                                                         *)
(* The model keeps the two sheets (inventory, orders) cell by cell, the    *)
(* two in-memory dedupe caches and the wall clock.  A tool invocation is   *)
(* one atomic action that performs all the reads and writes of the         *)
(* handler in the order of the code; the interleaved creates at the end    *)
(* take one spreadsheet round trip per step.  Text is a sequence of        *)
(* one-character strings so that substring lookup, lower(), strip(),       *)
(* split(), join(), str() and int() are computed, not assumed.             *)
(***************************************************************************)
EXTENDS Integers, Sequences, FiniteSets, TLC

VARIABLES inventory, orders, recent_single, recent_multi, now, ticks, last,
          inflight,
          data_row, column_type, result,
          orders_headers, order_row_data,
          inventory_headers

\* the argument and the return value of one smart_column_detection call
classifier == <<data_row, column_type, result>>

\* the orders header list and the row that create builds for it
reconciler == <<orders_headers, order_row_data>>

vars == <<inventory, orders, recent_single, recent_multi, now, ticks, last,
          inflight, classifier, reconciler, inventory_headers>>

(***************************************************************************)
(* Bounds of the model.                                                    *)
(***************************************************************************)
MaxStock == 3
MaxQty == 2
MaxCalls == 3
MaxTicks == 1

(***************************************************************************)
(* Text.                                                                   *)
(***************************************************************************)
UpperLetters == <<"A","B","C","D","E","F","G","H","I","J","K","L","M",
                  "N","O","P","Q","R","S","T","U","V","W","X","Y","Z">>
LowerLetters == <<"a","b","c","d","e","f","g","h","i","j","k","l","m",
                  "n","o","p","q","r","s","t","u","v","w","x","y","z">>
DigitChars == <<"0","1","2","3","4","5","6","7","8","9">>

IsUpper(c) == \E i \in DOMAIN UpperLetters : UpperLetters[i] = c
IsDigit(c) == \E i \in DOMAIN DigitChars : DigitChars[i] = c
DigitVal(c) == (CHOOSE i \in DOMAIN DigitChars : DigitChars[i] = c) - 1

LowerChar(c) ==
    IF IsUpper(c)
    THEN LowerLetters[CHOOSE i \in DOMAIN UpperLetters : UpperLetters[i] = c]
    ELSE c

\* str.lower()
Lower(s) == [i \in 1..Len(s) |-> LowerChar(s[i])]

\* q in s
Contains(s, q) ==
    \E i \in 0..(Len(s) - Len(q)) : SubSeq(s, i + 1, i + Len(q)) = q

\* str.strip()
Strip(s) ==
    IF \A i \in 1..Len(s) : s[i] = " " THEN <<>>
    ELSE LET a == CHOOSE i \in 1..Len(s) :
                      s[i] # " " /\ \A j \in 1..(i - 1) : s[j] = " "
             b == CHOOSE i \in 1..Len(s) :
                      s[i] # " " /\ \A j \in (i + 1)..Len(s) : s[j] = " "
         IN SubSeq(s, a, b)

\* position of the first c in s, 0 when there is none
IndexOf(s, c) ==
    IF \E i \in 1..Len(s) : s[i] = c
    THEN CHOOSE i \in 1..Len(s) : s[i] = c /\ \A j \in 1..(i - 1) : s[j] # c
    ELSE 0

\* s.split(c)
RECURSIVE Split(_, _)
Split(s, c) ==
    IF IndexOf(s, c) = 0 THEN <<s>>
    ELSE <<SubSeq(s, 1, IndexOf(s, c) - 1)>>
         \o Split(SubSeq(s, IndexOf(s, c) + 1, Len(s)), c)

\* c.join(parts)
RECURSIVE Join(_, _)
Join(parts, c) ==
    IF Len(parts) = 0 THEN <<>>
    ELSE IF Len(parts) = 1 THEN parts[1]
    ELSE parts[1] \o <<c>> \o Join(Tail(parts), c)

\* str(n) of an integer
RECURSIVE NatToStr(_)
NatToStr(n) ==
    IF n < 10 THEN <<DigitChars[n + 1]>>
    ELSE NatToStr(n \div 10) \o <<DigitChars[(n % 10) + 1]>>

IntToStr(n) == IF n < 0 THEN <<"-">> \o NatToStr(0 - n) ELSE NatToStr(n)

RECURSIVE DigitsToNat(_)
DigitsToNat(s) ==
    IF Len(s) = 0 THEN 0
    ELSE 10 * DigitsToNat(SubSeq(s, 1, Len(s) - 1)) + DigitVal(s[Len(s)])

AllDigits(s) == Len(s) > 0 /\ \A i \in 1..Len(s) : IsDigit(s[i])

\* int(s): [ok, v]; ok = FALSE stands for ValueError
PyInt(s) ==
    LET t == Strip(s)
        neg == Len(t) > 0 /\ t[1] = "-"
        body == IF Len(t) > 0 /\ (t[1] = "-" \/ t[1] = "+") THEN Tail(t) ELSE t
    IN IF AllDigits(body)
       THEN [ok |-> TRUE, v |-> IF neg THEN 0 - DigitsToNat(body) ELSE DigitsToNat(body)]
       ELSE [ok |-> FALSE, v |-> 0]

\* float(s) restricted to what int(float(s)) needs: [ok, v] with v the value
\* truncated to an integer; decimal notation with an optional sign and at most
\* one point, ValueError otherwise
PyFloat(s) ==
    LET t == Strip(s)
        neg == Len(t) > 0 /\ t[1] = "-"
        body == IF Len(t) > 0 /\ (t[1] = "-" \/ t[1] = "+") THEN Tail(t) ELSE t
        dot == IndexOf(body, ".")
        whole == IF dot = 0 THEN body ELSE SubSeq(body, 1, dot - 1)
        frac == IF dot = 0 THEN <<>> ELSE SubSeq(body, dot + 1, Len(body))
        good == /\ \A i \in 1..Len(whole) : IsDigit(whole[i])
                /\ \A i \in 1..Len(frac) : IsDigit(frac[i])
                /\ Len(whole) + Len(frac) > 0
        mag == DigitsToNat(whole)
    IN IF good THEN [ok |-> TRUE, v |-> IF neg THEN 0 - mag ELSE mag]
       ELSE [ok |-> FALSE, v |-> 0]

(***************************************************************************)
(* Literals.                                                               *)
(***************************************************************************)
NoText == <<>>
Gel == <<"G","e","l">>
GelXL == <<"G","e","l"," ","X","L">>
Tea == <<"T","e","a">>
Soda == <<"S","o","d","a">>
LowerGel == <<"g","e","l">>
XL == <<"X","L">>
Daily == <<"D","a","i","l","y">>
RsFive == <<"R","s"," ","5">>
Ali == <<"A","l","i">>
Pending == <<"P","e","n","d","i","n","g">>
Cancelled == <<"C","a","n","c","e","l","l","e","d">>
Delivered == <<"D","e","l","i","v","e","r","e","d">>
Shipped == <<"S","h","i","p","p","e","d">>
OrdPrefix == <<"O","R","D","-">>
ProductColumn == <<"P","r","o","d","u","c","t">>
QuantityColumn == <<"Q","u","a","n","t","i","t","y">>
PriceColumn == <<"P","r","i","c","e">>
AvailableColumn == <<"A","v","a","i","l","a","b","l","e">>
UnitsColumn == <<"U","n","i","t","s">>
InStockColumn == <<"I","n"," ","S","t","o","c","k">>

(***************************************************************************)
(* Sheets.  A cell holds a number (typed in by the owner) or text; what    *)
(* the tools write (valueInputOption RAW, a str) is text.  A sheet is the  *)
(* sequence of its rows below the header row: row i of the sequence is     *)
(* sheet row i + 1.                                                        *)
(*   inventory headers: inventory_headers, Product, Quantity, Price unless *)
(*                      the owner named the quantity column otherwise      *)
(*   orders headers:    Order ID, Customer Name, Product, Quantity, Status *)
(***************************************************************************)
Num(n) == [num |-> TRUE, n |-> n, s |-> NoText]
Txt(s) == [num |-> FALSE, n |-> 0, s |-> s]

\* str(cell_value).strip() if cell_value else ""
CellText(cell) ==
    IF cell.num
    THEN IF cell.n = 0 THEN NoText ELSE IntToStr(cell.n)
    ELSE Strip(cell.s)

RowText(row) == [h \in DOMAIN row |-> CellText(row[h])]

\* rows[1:] as dictionaries, entirely empty rows skipped
GetSheetData(rows) ==
    SelectSeq([i \in 1..Len(rows) |-> RowText(rows[i])],
              LAMBDA r : \E h \in DOMAIN r : r[h] # NoText)

\* enumerate(data): the first row whose product name contains the query,
\* case-insensitively; 0 when no row does.  The code's idx is this minus 1.
FindProduct(data, product_name) ==
    IF \E i \in 1..Len(data) : Contains(Lower(data[i].product), Lower(product_name))
    THEN CHOOSE i \in 1..Len(data) :
            /\ Contains(Lower(data[i].product), Lower(product_name))
            /\ \A j \in 1..(i - 1) :
                   ~Contains(Lower(data[j].product), Lower(product_name))
    ELSE 0

\* product_row_index = idx + 2 with the code's 0-based idx
ProductRowIndex(i) == (i - 1) + 2

\* values().update of the quantity cell, column B of sheet row row_index
UpdateQuantityCell(sheet, row_index, n) ==
    IF row_index - 1 \in DOMAIN sheet
    THEN [sheet EXCEPT ![row_index - 1].quantity = Txt(IntToStr(n))]
    ELSE sheet

\* the first order row whose id cell equals order_id; 0 when none
FindOrder(data, order_id) ==
    IF \E i \in 1..Len(data) : data[i].order_id = order_id
    THEN CHOOSE i \in 1..Len(data) :
            /\ data[i].order_id = order_id
            /\ \A j \in 1..(i - 1) : data[j].order_id # order_id
    ELSE 0

(***************************************************************************)
(* Deduplication guard: a dict key -> time of recording, as a set of       *)
(* records with distinct keys.                                             *)
(***************************************************************************)
DedupeWindow == 30

\* no eviction: the cache keeps every key ever recorded
KeepRecent(cache, current_time) == cache

\* {k: v for k, v in cache.items() if current_time - v < 30}
SweepRecent(cache, current_time) ==
    {e \in cache : current_time - e.t < DedupeWindow}

NeverInRecent(cache, key) == FALSE

InRecent(cache, key) == \E e \in cache : e.k = key

RecordRecent(cache, key, current_time) ==
    {e \in cache : e.k # key} \cup {[k |-> key, t |-> current_time]}

\* one cache for both create tools
SharedCache(own, other) == own \cup other

\* _recent_orders is an attribute of the tool function itself: each create
\* tool sweeps, reads and records only its own dictionary
OwnCache(own, other) == own

\* f"{customer_name}_{product_name}_{quantity}_{customer_email}_{customer_address}"
SingleOrderKey(customer_name, product_name, quantity, customer_email, customer_address) ==
    Join(<<customer_name, product_name, IntToStr(quantity),
           customer_email, customer_address>>, "_")

\* f"ORD-{int(time.time())}"
OrderId(t) == OrdPrefix \o IntToStr(t)

(***************************************************************************)
(* The record of the latest tool call: its arguments, its response, and    *)
(* what it did (cells written, rows appended), kept for the properties.    *)
(***************************************************************************)
NoCall ==
    [n |-> 0, op |-> "none", res |-> "none", order_id |-> NoText,
     customer |-> NoText, name |-> NoText, qty |-> 0, t |-> 0, row |-> 0,
     writes |-> 0, appends |-> 0, items |-> <<>>,
     restore |-> <<>>, deduct |-> <<>>, suggested_tool |-> "none",
     raised |-> "none"]

Call(op, res) == [NoCall EXCEPT !.n = last.n + 1, !.op = op, !.res = res, !.t = now]

(***************************************************************************)
(* process_customer_order_tool                                             *)
(***************************************************************************)
\* int(float(value)) if value else 0, any exception giving 0
AvailableQuantity(value) ==
    IF value # NoText /\ PyFloat(value).ok THEN PyFloat(value).v ELSE 0

\* "quantity" in product_detected_cols and product_detected_cols["quantity"]["value"]
HasQuantityTracking(value) == value # NoText

\* the header row of the inventory sheet as the owner usually has it
InventoryHeaders == <<ProductColumn, QuantityColumn, PriceColumn>>

\* the record fields that hold the cells of columns A, B, C of a row
InventoryFields == <<"product", "quantity", "price">>

\* any("quantity" in header.lower() or "stock" in header.lower()
\*     or "available" in header.lower() for header in inventory_headers)
HasQuantityColumn(headers) ==
    \E j \in DOMAIN headers :
       \E word \in {Lower(QuantityColumn), <<"s","t","o","c","k">>,
                     Lower(AvailableColumn)} :
          Contains(Lower(headers[j]), word)

\* any(word in header.lower() for word in ["quantity", "qty", "stock"])
HasQuantityWord(header) ==
    \E word \in {Lower(QuantityColumn), <<"q","t","y">>, <<"s","t","o","c","k">>} :
       Contains(Lower(header), word)

\* quantity_col: the first column whose header holds a quantity word, as a
\* number (1 for A); 0 when the loop ends with quantity_col = None
QuantityCol(headers) ==
    IF \E j \in DOMAIN headers : HasQuantityWord(headers[j])
    THEN CHOOSE j \in DOMAIN headers :
            /\ HasQuantityWord(headers[j])
            /\ \A k \in 1..(j - 1) : ~HasQuantityWord(headers[k])
    ELSE 0

\* values().update of range f"{quantity_col}{product_row_index}"
UpdateInventoryCell(sheet, quantity_col, row_index, n) ==
    IF row_index - 1 \in DOMAIN sheet /\ quantity_col \in DOMAIN InventoryFields
    THEN [sheet EXCEPT ![row_index - 1][InventoryFields[quantity_col]] =
                           Txt(IntToStr(n))]
    ELSE sheet

\* the order row carries a shortened name: the first word of the product's
FirstWordOfName(item, product_name) == Head(Split(item.product, " "))

\* product_details.get("product_name", product_name): the name held by the
\* inventory row that was matched, never the query
StoredProductName(item, product_name) == item.product

\* the order row filled for the orders headers
SingleOrderRow(order_id, customer_name, product, quantity) ==
    [order_id |-> Txt(order_id), customer_name |-> Txt(customer_name),
     product |-> Txt(product), quantity |-> Txt(IntToStr(quantity)),
     status |-> Txt(Pending)]

\* float(product_details.get("price", 0)) of the summary raises ValueError
SummaryRaises(price) == ~PyFloat(price).ok

ProcessCustomerOrder(customer_name, product_name, quantity) ==
    LET order_key == SingleOrderKey(customer_name, product_name, quantity, NoText, NoText)
        swept == SweepRecent(OwnCache(recent_single, recent_multi), now)
        inventory_data == GetSheetData(inventory)
        i == FindProduct(inventory_data, product_name)
        item == inventory_data[i]
        has_quantity_column == HasQuantityColumn(inventory_headers)
        available_quantity == IF has_quantity_column
                              THEN AvailableQuantity(item.quantity) ELSE 0
        has_quantity_tracking == has_quantity_column
                                 /\ HasQuantityTracking(item.quantity)
        quantity_col == QuantityCol(inventory_headers)
        order_id == OrderId(now)
        call == [Call("create", "none") EXCEPT !.customer = customer_name,
                     !.name = product_name, !.qty = quantity]
    IN
    /\ last.n < MaxCalls
    /\ UNCHANGED <<inflight, classifier, reconciler, inventory_headers>>
    /\ UNCHANGED <<recent_multi, now, ticks>>
    /\ IF InRecent(swept, order_key)
       THEN /\ recent_single' = swept
            /\ last' = [call EXCEPT !.res = "duplicate_prevention"]
            /\ UNCHANGED <<inventory, orders>>
       ELSE /\ recent_single' = RecordRecent(swept, order_key, now)
            /\ IF i = 0
               THEN /\ last' = [call EXCEPT !.res = "product_not_found"]
                    /\ UNCHANGED <<inventory, orders>>
               ELSE IF has_quantity_tracking /\ available_quantity < quantity
               THEN /\ last' = [call EXCEPT !.res = "insufficient_stock", !.row = i]
                    /\ UNCHANGED <<inventory, orders>>
               ELSE /\ inventory' =
                          IF has_quantity_tracking /\ quantity_col # 0
                          THEN UpdateInventoryCell(inventory, quantity_col,
                                                   ProductRowIndex(i),
                                                   available_quantity - quantity)
                          ELSE inventory
                    /\ orders' = Append(orders,
                          SingleOrderRow(order_id, customer_name,
                                         StoredProductName(item, product_name),
                                         quantity))
                    /\ last' = [call EXCEPT
                          !.res = IF SummaryRaises(item.price)
                                  THEN "processing_failed" ELSE "success",
                          !.order_id = order_id, !.row = i,
                          !.writes = IF has_quantity_tracking /\ quantity_col # 0
                                     THEN 1 ELSE 0,
                          !.appends = 1]

(***************************************************************************)
(* update_customer_order_tool                                              *)
(***************************************************************************)
NoQuantity == [some |-> FALSE, v |-> 0]
SomeQuantity(n) == [some |-> TRUE, v |-> n]

\* the row is taken out of the sheet and the rows below move up
DeleteOrderRow(sheet, row_index, header, text) ==
    IF row_index - 1 \in DOMAIN sheet
    THEN SubSeq(sheet, 1, row_index - 2) \o SubSeq(sheet, row_index, Len(sheet))
    ELSE sheet

\* values().update of one cell of the orders sheet row row_index
UpdateOrderCell(sheet, row_index, header, text) ==
    IF row_index - 1 \in DOMAIN sheet
    THEN [sheet EXCEPT ![row_index - 1][header] = Txt(text)]
    ELSE sheet

\* order_row_index = idx + 2 with the code's 0-based idx
OrderRowIndex(j) == (j - 1) + 2

\* int(quantity_value) of an inventory row: the stock when it is numeric
StockOf(value) == PyInt(value)

\* product change, first half: restore the old product's full quantity
RestoreOldProduct(sheet, data, current_product_name, current_quantity) ==
    LET i == FindProduct(data, current_product_name)
    IN IF current_product_name # NoText /\ i # 0 /\ StockOf(data[i].quantity).ok
       THEN UpdateQuantityCell(sheet, ProductRowIndex(i),
                               StockOf(data[i].quantity).v + current_quantity)
       ELSE sheet

\* quantity change only: the stock written for the signed difference
AdjustedStock(current_stock, current_quantity, new_quantity) ==
    current_stock - (new_quantity - current_quantity)

\* the increase is written without looking at the stock
IncreaseNeverRejected(current_stock, current_quantity, new_quantity) == FALSE

\* the check before a quantity increase
IncreaseRejected(current_stock, current_quantity, new_quantity) ==
    /\ new_quantity - current_quantity > 0
    /\ current_stock < new_quantity - current_quantity

\* Step 7: the cells of the order row that get new values
UpdatedOrderRow(sheet, row_index, product_changed, new_name, new_quantity) ==
    LET s1 == IF product_changed /\ new_name # NoText
              THEN UpdateOrderCell(sheet, row_index, "product", new_name)
              ELSE sheet
    IN IF new_quantity.some
       THEN UpdateOrderCell(s1, row_index, "quantity", IntToStr(new_quantity.v))
       ELSE s1

\* the comma guard left out: every order is taken for a single-item order
NeverMultipleProductsOrder(quantity_value, current_product_name) == FALSE

\* "," in str(quantity_value) or "," in current_product_name
IsMultipleProductsOrder(quantity_value, current_product_name) ==
    Contains(quantity_value, <<",">>) \/ Contains(current_product_name, <<",">>)

\* the names are compared as they are written
ProductChangedExactly(new_product_name, current_product_name) ==
    new_product_name # NoText /\ new_product_name # current_product_name

\* new_product_name and new_product_name.lower() != current_product_name.lower()
ProductChanged(new_product_name, current_product_name) ==
    new_product_name # NoText /\ Lower(new_product_name) # Lower(current_product_name)

\* Step 7, customer_name: the customer name cell, written when a new name
\* is given
WithCustomerName(sheet, row_index, new_customer_name) ==
    IF new_customer_name # NoText
    THEN UpdateOrderCell(sheet, row_index, "customer_name", new_customer_name)
    ELSE sheet

UpdateCustomerOrderTool(order_id, new_product_name, new_quantity, new_customer_name) ==
    LET orders_data == GetSheetData(orders)
        j == FindOrder(orders_data, order_id)
        order == orders_data[j]
        current_product_name == order.product
        cq == PyInt(order.quantity)
        current_quantity == cq.v
        inventory_data == GetSheetData(inventory)
        product_changed == ProductChanged(new_product_name, current_product_name)
        quantity_changed == new_quantity.some /\ new_quantity.v # current_quantity
        final_quantity == IF new_quantity.some THEN new_quantity.v ELSE current_quantity
        restored == RestoreOldProduct(inventory, inventory_data,
                                      current_product_name, current_quantity)
        old_written == IF restored # inventory THEN 1 ELSE 0
        k == FindProduct(inventory_data, new_product_name)
        new_stock == StockOf(inventory_data[k].quantity)
        i == FindProduct(inventory_data, current_product_name)
        cur_stock == StockOf(inventory_data[i].quantity)
        call == [Call("update", "none") EXCEPT !.order_id = order_id,
                     !.name = new_product_name, !.items = <<new_quantity>>,
                     !.customer = new_customer_name]
    IN
    /\ last.n < MaxCalls
    /\ UNCHANGED <<inflight, classifier, reconciler, inventory_headers>>
    /\ UNCHANGED <<recent_single, recent_multi, now, ticks>>
    /\ IF j = 0
       THEN /\ last' = [call EXCEPT !.res = "order_not_found"]
            /\ UNCHANGED <<inventory, orders>>
       ELSE IF IsMultipleProductsOrder(order.quantity, current_product_name)
       THEN /\ last' = [call EXCEPT !.res = "multiple_products_order_detected",
                            !.suggested_tool = "update_multiple_products_order_tool"]
            /\ UNCHANGED <<inventory, orders>>
       ELSE IF ~cq.ok
       THEN /\ last' = [call EXCEPT !.res = "update_failed"]
            /\ UNCHANGED <<inventory, orders>>
       ELSE IF product_changed
       THEN IF k = 0
            THEN /\ inventory' = restored
                 /\ last' = [call EXCEPT !.res = "new_product_not_found",
                                 !.qty = current_quantity, !.writes = old_written]
                 /\ UNCHANGED orders
            ELSE IF new_stock.ok /\ new_stock.v < final_quantity
            THEN /\ inventory' = restored
                 /\ last' = [call EXCEPT !.res = "insufficient_stock",
                                 !.qty = current_quantity, !.row = k,
                                 !.writes = old_written]
                 /\ UNCHANGED orders
            ELSE /\ inventory' =
                       IF new_stock.ok
                       THEN UpdateQuantityCell(restored, ProductRowIndex(k),
                                               new_stock.v - final_quantity)
                       ELSE restored
                 /\ orders' = WithCustomerName(
                                UpdatedOrderRow(orders, OrderRowIndex(j), TRUE,
                                                inventory_data[k].product, new_quantity),
                                OrderRowIndex(j), new_customer_name)
                 /\ last' = [call EXCEPT !.res = "success",
                                 !.qty = current_quantity, !.row = k,
                                 !.writes = old_written + (IF new_stock.ok THEN 1 ELSE 0)]
       ELSE IF quantity_changed /\ i # 0 /\ cur_stock.ok
                /\ IncreaseRejected(cur_stock.v, current_quantity, new_quantity.v)
       THEN /\ last' = [call EXCEPT !.res = "insufficient_stock",
                            !.qty = current_quantity, !.row = i]
            /\ UNCHANGED <<inventory, orders>>
       ELSE /\ inventory' =
                  IF quantity_changed /\ i # 0 /\ cur_stock.ok
                  THEN UpdateQuantityCell(inventory, ProductRowIndex(i),
                           AdjustedStock(cur_stock.v, current_quantity, new_quantity.v))
                  ELSE inventory
            /\ orders' = WithCustomerName(
                           UpdatedOrderRow(orders, OrderRowIndex(j), FALSE,
                                           NoText, new_quantity),
                           OrderRowIndex(j), new_customer_name)
            /\ last' = [call EXCEPT !.res = "success",
                            !.qty = current_quantity, !.row = i,
                            !.writes = IF quantity_changed /\ i # 0 /\ cur_stock.ok
                                       THEN 1 ELSE 0]

\* the call with the customer fields left at their defaults
UpdateCustomerOrder(order_id, new_product_name, new_quantity) ==
    UpdateCustomerOrderTool(order_id, new_product_name, new_quantity, NoText)

(***************************************************************************)
(* cancel_customer_order_tool                                              *)
(***************************************************************************)
\* the status guard: "" when the cancel may proceed, else the error token
CancelStatusError(current_status) ==
    IF Lower(current_status) = Lower(Cancelled) THEN "already_cancelled"
    ELSE IF Lower(current_status) = Lower(Delivered) THEN "cannot_cancel_delivered"
    ELSE IF current_status # NoText /\ Lower(current_status) # Lower(Pending)
    THEN "invalid_status_for_cancellation"
    ELSE "proceed"

\* cancel_quantity_value = detected_cols["quantity"]["value"] or "0"; int(...)
CancelStockOf(value) == PyInt(IF value = NoText THEN <<"0">> ELSE value)

StatusLeftAsIs(sheet, row_index) == sheet

\* Step 5: the status cell becomes Cancelled
MarkCancelled(sheet, row_index) == UpdateOrderCell(sheet, row_index, "status", Cancelled)

CancelCustomerOrder(order_id) ==
    LET orders_data == GetSheetData(orders)
        j == FindOrder(orders_data, order_id)
        order == orders_data[j]
        oq == PyInt(order.quantity)
        product_name == order.product
        quantity_to_restore == oq.v
        status_error == CancelStatusError(Strip(order.status))
        inventory_data == GetSheetData(inventory)
        i == FindProduct(inventory_data, product_name)
        stock == CancelStockOf(inventory_data[i].quantity)
        restores == product_name # NoText /\ quantity_to_restore > 0
                    /\ i # 0 /\ stock.ok
        call == [Call("cancel", "none") EXCEPT !.order_id = order_id]
    IN
    /\ last.n < MaxCalls
    /\ UNCHANGED <<inflight, classifier, reconciler, inventory_headers>>
    /\ UNCHANGED <<recent_single, recent_multi, now, ticks>>
    /\ IF j = 0
       THEN /\ last' = [call EXCEPT !.res = "order_not_found"]
            /\ UNCHANGED <<inventory, orders>>
       ELSE IF ~oq.ok
       THEN /\ last' = [call EXCEPT !.res = "cancellation_failed"]
            /\ UNCHANGED <<inventory, orders>>
       ELSE IF status_error # "proceed"
       THEN /\ last' = [call EXCEPT !.res = status_error]
            /\ UNCHANGED <<inventory, orders>>
       ELSE /\ inventory' =
                  IF restores
                  THEN UpdateQuantityCell(inventory, ProductRowIndex(i),
                                          stock.v + quantity_to_restore)
                  ELSE inventory
            /\ orders' = MarkCancelled(orders, OrderRowIndex(j))
            /\ last' = [call EXCEPT !.res = "success", !.qty = quantity_to_restore,
                            !.row = i, !.writes = IF restores THEN 1 ELSE 0]

(***************************************************************************)
(* Product lists: "Name:Qty,Name:Qty" texts, the stored comma-joined       *)
(* parallel lists, and the name -> quantity dicts built from them (a dict  *)
(* is the sequence of its entries in insertion order).                     *)
(***************************************************************************)
\* product, qty = item.strip().split(':', 1); product.strip(), int(qty.strip())
ParseItem(item) ==
    LET t == Strip(item)
        p == IndexOf(t, ":")
    IN [name |-> Strip(SubSeq(t, 1, p - 1)),
        q |-> PyInt(Strip(SubSeq(t, p + 1, Len(t))))]

HasColon(item) == IndexOf(item, ":") # 0

Entry(name, quantity) == [name |-> name, quantity |-> quantity]

\* the items of the tokens that carry a ':'
ParsedItems(tokens) ==
    LET with_colon == SelectSeq(tokens, HasColon)
    IN [i \in 1..Len(with_colon) |->
           Entry(ParseItem(with_colon[i]).name, ParseItem(with_colon[i]).q.v)]

\* multi-item create: the first token without ':' ends the call with
\* invalid_format, the first quantity int() rejects with parsing_error
RECURSIVE ParseError(_)
ParseError(tokens) ==
    IF Len(tokens) = 0 THEN "none"
    ELSE IF ~HasColon(Head(tokens)) THEN "invalid_format"
    ELSE IF ~ParseItem(Head(tokens)).q.ok THEN "parsing_error"
    ELSE ParseError(Tail(tokens))

\* multi-item update: tokens without ':' are skipped, a quantity int()
\* rejects gives parsing_error
UpdateParseError(tokens) ==
    IF \E i \in 1..Len(tokens) : HasColon(tokens[i]) /\ ~ParseItem(tokens[i]).q.ok
    THEN "parsing_error" ELSE "none"

\* the stored lists of an order row back into items; a quantity int()
\* rejects drops its item
ParseStoredProducts(products_str, quantities_str) ==
    IF products_str = NoText \/ quantities_str = NoText THEN <<>>
    ELSE LET product_names == Split(products_str, ",")
             quantities == Split(quantities_str, ",")
             idx == SelectSeq([i \in 1..Len(product_names) |-> i],
                        LAMBDA i : i <= Len(quantities)
                                   /\ PyInt(Strip(quantities[i])).ok)
         IN [k \in 1..Len(idx) |->
                Entry(Strip(product_names[idx[k]]),
                      PyInt(Strip(quantities[idx[k]])).v)]

DictHas(d, key) == \E i \in 1..Len(d) : d[i].name = key
DictGet(d, key) == d[CHOOSE i \in 1..Len(d) : d[i].name = key].quantity

\* {p["name"].lower(): p["quantity"] for p in products}
RECURSIVE ProductDict(_)
ProductDict(products) ==
    IF Len(products) = 0 THEN <<>>
    ELSE LET d == ProductDict(SubSeq(products, 1, Len(products) - 1))
             p == products[Len(products)]
             key == Lower(p.name)
         IN IF DictHas(d, key)
            THEN [i \in 1..Len(d) |->
                     IF d[i].name = key THEN Entry(key, p.quantity) ELSE d[i]]
            ELSE Append(d, Entry(key, p.quantity))

\* products_to_restore: removed items in full, reduced items by the reduction
ProductsToRestore(old_product_dict, new_product_dict) ==
    LET hit == SelectSeq(old_product_dict,
                   LAMBDA e : \/ ~DictHas(new_product_dict, e.name)
                              \/ DictGet(new_product_dict, e.name) < e.quantity)
    IN [i \in 1..Len(hit) |->
           IF ~DictHas(new_product_dict, hit[i].name) THEN hit[i]
           ELSE Entry(hit[i].name,
                      hit[i].quantity - DictGet(new_product_dict, hit[i].name))]

DeductEveryNewItem(old_product_dict, new_product_dict) == new_product_dict

\* products_to_deduct: added items in full, increased items by the increase
ProductsToDeduct(old_product_dict, new_product_dict) ==
    LET hit == SelectSeq(new_product_dict,
                   LAMBDA e : \/ ~DictHas(old_product_dict, e.name)
                              \/ e.quantity > DictGet(old_product_dict, e.name))
    IN [i \in 1..Len(hit) |->
           IF ~DictHas(old_product_dict, hit[i].name) THEN hit[i]
           ELSE Entry(hit[i].name,
                      hit[i].quantity - DictGet(old_product_dict, hit[i].name))]

(***************************************************************************)
(* process_multiple_products_order_tool                                    *)
(***************************************************************************)
\* f"{customer_name}_{products_list}_{customer_email}_{customer_address}"
MultiOrderKey(customer_name, products_list, customer_email, customer_address) ==
    Join(<<customer_name, products_list, customer_email, customer_address>>, "_")

\* quantity_value = detected_cols["quantity"]["value"] or "0"; int(quantity_value)
MultiCreateStock(value) == PyInt(IF value = NoText THEN <<"0">> ELSE value)

\* the validation loop: the first item not found or short of stock ends the call
RECURSIVE ValidateProducts(_, _)
ValidateProducts(data, items) ==
    IF Len(items) = 0 THEN "none"
    ELSE LET i == FindProduct(data, Head(items).name)
             stock == MultiCreateStock(data[i].quantity)
         IN IF i = 0 THEN "product_not_found"
            ELSE IF stock.ok /\ stock.v < Head(items).quantity THEN "insufficient_stock"
            ELSE ValidateProducts(data, Tail(items))

\* the inventory update loop: each numeric item's cell := the stock read at
\* validation minus the item's quantity
RECURSIVE DeductValidated(_, _, _)
DeductValidated(sheet, data, items) ==
    IF Len(items) = 0 THEN sheet
    ELSE LET i == FindProduct(data, Head(items).name)
             stock == MultiCreateStock(data[i].quantity)
         IN DeductValidated(
                IF stock.ok
                THEN UpdateQuantityCell(sheet, ProductRowIndex(i),
                                        stock.v - Head(items).quantity)
                ELSE sheet,
                data, Tail(items))

\* p["details"]["inventory_name"] of the items, in order
InventoryNames(data, items) ==
    [k \in 1..Len(items) |-> data[FindProduct(data, items[k].name)].product]

QuantityStrings(items) == [k \in 1..Len(items) |-> IntToStr(items[k].quantity)]

MultiOrderRow(order_id, customer_name, products_names_str, quantities_str) ==
    [order_id |-> Txt(order_id), customer_name |-> Txt(customer_name),
     product |-> Txt(products_names_str), quantity |-> Txt(quantities_str),
     status |-> Txt(Pending)]

ProcessMultipleProductsOrder(customer_name, products_list) ==
    LET order_key == MultiOrderKey(customer_name, products_list, NoText, NoText)
        swept == SweepRecent(OwnCache(recent_multi, recent_single), now)
        tokens == Split(products_list, ",")
        parse_error == ParseError(tokens)
        products_data == ParsedItems(tokens)
        inventory_data == GetSheetData(inventory)
        invalid == ValidateProducts(inventory_data, products_data)
        order_id == OrderId(now)
        call == [Call("multi_create", "none") EXCEPT !.customer = customer_name,
                     !.name = products_list]
    IN
    /\ last.n < MaxCalls
    /\ UNCHANGED <<inflight, classifier, reconciler, inventory_headers>>
    /\ UNCHANGED <<recent_single, now, ticks>>
    /\ IF InRecent(swept, order_key)
       THEN /\ recent_multi' = swept
            /\ last' = [call EXCEPT !.res = "duplicate_prevention"]
            /\ UNCHANGED <<inventory, orders>>
       ELSE /\ recent_multi' = RecordRecent(swept, order_key, now)
            /\ IF parse_error # "none"
               THEN /\ last' = [call EXCEPT !.res = parse_error]
                    /\ UNCHANGED <<inventory, orders>>
               ELSE IF invalid # "none"
               THEN /\ last' = [call EXCEPT !.res = invalid, !.items = products_data]
                    /\ UNCHANGED <<inventory, orders>>
               ELSE /\ inventory' = DeductValidated(inventory, inventory_data,
                                                    products_data)
                    /\ orders' = Append(orders,
                          MultiOrderRow(order_id, customer_name,
                              Join(InventoryNames(inventory_data, products_data), ","),
                              Join(QuantityStrings(products_data), ",")))
                    /\ last' = [call EXCEPT !.res = "success", !.order_id = order_id,
                                    !.items = products_data, !.appends = 1]

(***************************************************************************)
(* update_multiple_products_order_tool                                     *)
(***************************************************************************)
\* the restore loop: each item's first matching row, when its quantity is
\* numeric, := the stock read at the start plus the item's quantity
RECURSIVE RestoreProducts(_, _, _)
RestoreProducts(sheet, data, items) ==
    IF Len(items) = 0 THEN sheet
    ELSE LET i == FindProduct(data, Head(items).name)
             stock == StockOf(data[i].quantity)
         IN RestoreProducts(
                IF i # 0 /\ stock.ok
                THEN UpdateQuantityCell(sheet, ProductRowIndex(i),
                                        stock.v + Head(items).quantity)
                ELSE sheet,
                data, Tail(items))

\* the deduct loop: item by item, check then write; the first item not found
\* or short of stock ends the call with what was written so far
RECURSIVE DeductProducts(_, _, _)
DeductProducts(sheet, data, items) ==
    IF Len(items) = 0 THEN [err |-> "none", sheet |-> sheet]
    ELSE LET i == FindProduct(data, Head(items).name)
             stock == StockOf(data[i].quantity)
         IN IF i = 0 THEN [err |-> "new_product_not_found", sheet |-> sheet]
            ELSE IF stock.ok /\ stock.v < Head(items).quantity
            THEN [err |-> "insufficient_stock", sheet |-> sheet]
            ELSE DeductProducts(
                     IF stock.ok
                     THEN UpdateQuantityCell(sheet, ProductRowIndex(i),
                                             stock.v - Head(items).quantity)
                     ELSE sheet,
                     data, Tail(items))

\* validated_new_products: the new items found in inventory, under their
\* inventory names
ValidatedNewProducts(data, new_products) ==
    LET found == SelectSeq(new_products, LAMBDA e : FindProduct(data, e.name) # 0)
    IN [k \in 1..Len(found) |->
           Entry(data[FindProduct(data, found[k].name)].product, found[k].quantity)]

\* the order row's product and quantity cells, each written when its new
\* value is not empty
UpdatedMultiOrderRow(sheet, row_index, new_products_str, new_quantities_str) ==
    LET s1 == IF new_products_str # NoText
              THEN UpdateOrderCell(sheet, row_index, "product", new_products_str)
              ELSE sheet
    IN IF new_quantities_str # NoText
       THEN UpdateOrderCell(s1, row_index, "quantity", new_quantities_str)
       ELSE s1

UpdateMultipleProductsOrderTool(order_id, new_products_list, new_customer_name) ==
    LET orders_data == GetSheetData(orders)
        j == FindOrder(orders_data, order_id)
        order == orders_data[j]
        current_products == ParseStoredProducts(order.product, order.quantity)
        tokens == Split(new_products_list, ",")
        new_products == ParsedItems(tokens)
        inventory_data == GetSheetData(inventory)
        old_product_dict == ProductDict(current_products)
        new_product_dict == ProductDict(new_products)
        products_to_restore == ProductsToRestore(old_product_dict, new_product_dict)
        products_to_deduct == ProductsToDeduct(old_product_dict, new_product_dict)
        restored == RestoreProducts(inventory, inventory_data, products_to_restore)
        deducted == DeductProducts(restored, inventory_data, products_to_deduct)
        validated_new_products == ValidatedNewProducts(inventory_data, new_products)
        call == [Call("multi_update", "none") EXCEPT !.order_id = order_id,
                     !.name = new_products_list, !.customer = new_customer_name]
        diffed == [call EXCEPT !.items = new_products,
                       !.restore = products_to_restore,
                       !.deduct = products_to_deduct]
    IN
    /\ last.n < MaxCalls
    /\ UNCHANGED <<inflight, classifier, reconciler, inventory_headers>>
    /\ UNCHANGED <<recent_single, recent_multi, now, ticks>>
    /\ IF j = 0
       THEN /\ last' = [call EXCEPT !.res = "order_not_found"]
            /\ UNCHANGED <<inventory, orders>>
       ELSE IF new_products_list = NoText
       THEN /\ last' = [call EXCEPT !.res = "success"]
            /\ orders' = WithCustomerName(orders, OrderRowIndex(j), new_customer_name)
            /\ UNCHANGED inventory
       ELSE IF UpdateParseError(tokens) # "none"
       THEN /\ last' = [call EXCEPT !.res = UpdateParseError(tokens)]
            /\ UNCHANGED <<inventory, orders>>
       ELSE /\ inventory' = deducted.sheet
            /\ IF deducted.err # "none"
               THEN /\ last' = [diffed EXCEPT !.res = deducted.err]
                    /\ UNCHANGED orders
               ELSE /\ orders' = WithCustomerName(
                          UpdatedMultiOrderRow(orders, OrderRowIndex(j),
                             Join([k \in 1..Len(validated_new_products) |->
                                      validated_new_products[k].name], ","),
                             Join(QuantityStrings(validated_new_products), ",")),
                          OrderRowIndex(j), new_customer_name)
                    /\ last' = [diffed EXCEPT !.res = "success"]

\* the call with the customer fields left at their defaults
UpdateMultipleProductsOrder(order_id, new_products_list) ==
    UpdateMultipleProductsOrderTool(order_id, new_products_list, NoText)

(***************************************************************************)
(* cancel_multiple_products_order_tool                                     *)
(***************************************************************************)
\* the status guard of the multi-item cancel
MultiCancelStatusError(current_status) ==
    IF Lower(current_status) = Lower(Cancelled) THEN "already_cancelled"
    ELSE IF Lower(current_status) = Lower(Delivered) THEN "cannot_cancel_delivered"
    ELSE "proceed"

CancelMultipleProductsOrder(order_id) ==
    LET orders_data == GetSheetData(orders)
        j == FindOrder(orders_data, order_id)
        order == orders_data[j]
        status_error == MultiCancelStatusError(Strip(order.status))
        products_to_restore == ParseStoredProducts(order.product, order.quantity)
        inventory_data == GetSheetData(inventory)
        call == [Call("multi_cancel", "none") EXCEPT !.order_id = order_id]
    IN
    /\ last.n < MaxCalls
    /\ UNCHANGED <<inflight, classifier, reconciler, inventory_headers>>
    /\ UNCHANGED <<recent_single, recent_multi, now, ticks>>
    /\ IF j = 0
       THEN /\ last' = [call EXCEPT !.res = "order_not_found"]
            /\ UNCHANGED <<inventory, orders>>
       ELSE IF status_error # "proceed"
       THEN /\ last' = [call EXCEPT !.res = status_error]
            /\ UNCHANGED <<inventory, orders>>
       ELSE /\ inventory' = RestoreProducts(inventory, inventory_data,
                                            products_to_restore)
            /\ orders' = MarkCancelled(orders, OrderRowIndex(j))
            /\ last' = [call EXCEPT !.res = "success",
                            !.restore = products_to_restore]

(***************************************************************************)
(* The clock.                                                              *)
(***************************************************************************)
TickSteps == {DedupeWindow - 1, DedupeWindow}

Tick ==
    /\ ticks < MaxTicks
    /\ \E d \in TickSteps : now' = now + d
    /\ ticks' = ticks + 1
    /\ UNCHANGED <<inventory, orders, recent_single, recent_multi, last, inflight,
                 classifier, reconciler, inventory_headers>>

(***************************************************************************)
(* Invocations in flight: a tool invocation that is followed round trip by *)
(* round trip keeps its position, its arguments and what it has read here. *)
(* The atomic actions above leave it alone.                                *)
(***************************************************************************)
Invocations == {1, 2}

Idle ==
    [pc |-> "idle", op |-> "none", customer |-> NoText, name |-> NoText,
     qty |-> 0, inventory_data |-> <<>>, res |-> "none",
     order_id |-> NoText, order_row |-> 0, new_name |-> NoText,
     new_quantity |-> [some |-> FALSE, v |-> 0], writes |-> 0]

NoInflight == [p \in Invocations |-> Idle]

(***************************************************************************)
(* Inputs and initial states.                                              *)
(***************************************************************************)
Customers == {Ali}
ProductQueries == {LowerGel, XL, Soda}
Quantities == 1..MaxQty

InitialInventories ==
    {<<[product |-> Txt(Gel), quantity |-> Num(MaxStock), price |-> Num(5)],
       [product |-> Txt(GelXL), quantity |-> qx, price |-> px],
       [product |-> Txt(Tea), quantity |-> Txt(Daily), price |-> Num(5)]>> :
        <<qx, px>> \in {<<Num(0), Num(5)>>, <<Num(MaxQty), Num(5)>>,
                           <<Num(MaxQty), Txt(RsFive)>>}}

\* no detection has been made
NoResult == [col_type \in {} |-> 0]

Init ==
    /\ inventory \in InitialInventories
    /\ orders = <<>>
    /\ recent_single = {}
    /\ recent_multi = {}
    /\ now = 0
    /\ ticks = 0
    /\ last = NoCall
    /\ inflight = NoInflight
    /\ data_row = <<>>
    /\ column_type = "none"
    /\ result = NoResult
    /\ orders_headers = <<>>
    /\ order_row_data = <<>>
    /\ inventory_headers = InventoryHeaders

\* the order ids a caller can name: those on the sheet
KnownOrderIds == {CellText(orders[j].order_id) : j \in 1..Len(orders)}
NewProductNames == {NoText, LowerGel, XL}
NewQuantities == {NoQuantity} \cup {SomeQuantity(q) : q \in Quantities}

Next ==
    \/ \E c \in Customers, p \in ProductQueries, q \in Quantities :
          ProcessCustomerOrder(c, p, q)
    \/ \E id \in KnownOrderIds, p \in NewProductNames, q \in NewQuantities :
          UpdateCustomerOrder(id, p, q)
    \/ \E id \in KnownOrderIds : CancelCustomerOrder(id)
    \/ Tick

Spec == Init /\ [][Next]_vars


(***************************************************************************)
(* The multi-item tools, with the single-item cancel, over the same sheets.*)
(***************************************************************************)
GelOneXLOne == <<"g","e","l",":","1",",","X","L",":","1">>
GelOneGelTwo == <<"g","e","l",":","1",",","g","e","l",":","2">>
GelOneSodaOne == <<"g","e","l",":","1",",","S","o","d","a",":","1">>
GelOneXLThree == <<"g","e","l",":","1",",","X","L",":","3">>
XLOne == <<"X","L",":","1">>
FullGelOne == <<"G","e","l",":","1">>
FullGelTwo == <<"G","e","l",":","2">>
GelXLOneXLOne == <<"G","e","l"," ","X","L",":","1",",","X","L",":","1">>

ProductsLists == {GelOneXLOne, GelOneGelTwo, GelOneSodaOne, GelOneXLThree, XLOne}
NewProductsLists == {NoText, FullGelOne, FullGelTwo, GelXLOneXLOne}

NextMulti ==
    \/ \E c \in Customers, l \in ProductsLists : ProcessMultipleProductsOrder(c, l)
    \/ \E id \in KnownOrderIds, l \in NewProductsLists :
          UpdateMultipleProductsOrder(id, l)
    \/ \E id \in KnownOrderIds : CancelMultipleProductsOrder(id)
    \/ \E id \in KnownOrderIds : CancelCustomerOrder(id)
    \/ Tick

SpecMulti == Init /\ [][NextMulti]_vars

(***************************************************************************)
(* Vocabulary of the properties.                                           *)
(***************************************************************************)
\* this step is a tool call of the given kind
IsCall(op) == last'.n = last.n + 1 /\ last'.op = op

\* the quantity cell holds a number: typed by the owner or written as digits
NumericCell(cell) == cell.num \/ PyInt(cell.s).ok
StockValue(cell) == IF cell.num THEN cell.n ELSE PyInt(cell.s).v

\* the inventory row a product name resolves to (0: none)
Matched(name) == FindProduct(GetSheetData(inventory), name)

\* the orders row an order id addresses (0: none)
Addressed(order_id) == FindOrder(GetSheetData(orders), order_id)

\* the text is ORD- followed by digits
IsGeneratedId(text) ==
    /\ Len(text) > Len(OrdPrefix)
    /\ SubSeq(text, 1, Len(OrdPrefix)) = OrdPrefix
    /\ AllDigits(SubSeq(text, Len(OrdPrefix) + 1, Len(text)))

(***************************************************************************)
(* C1: a single-item create for a numerically tracked product with stock S *)
(* and requested quantity Q > S returns insufficient_stock, leaves the     *)
(* stock at S and appends no order row.                                    *)
(***************************************************************************)
C1_InsufficientStockRejected ==
    [][\A i \in 1..Len(inventory) :
          (/\ IsCall("create")
           /\ Matched(last'.name) = i
           /\ NumericCell(inventory[i].quantity)
           /\ last'.qty > StockValue(inventory[i].quantity))
          => (/\ last'.res = "insufficient_stock"
              /\ inventory' = inventory
              /\ orders' = orders)]_vars

(***************************************************************************)
(* C2: a non-duplicate single-item create for a numerically tracked        *)
(* product with stock S and quantity Q <= S succeeds, leaves stock S - Q   *)
(* and appends exactly one row with status Pending and an id ORD-<digits>. *)
(***************************************************************************)
C2_CreateSucceeds ==
    [][\A i \in 1..Len(inventory) :
          (/\ IsCall("create")
           /\ last'.res # "duplicate_prevention"
           /\ Matched(last'.name) = i
           /\ NumericCell(inventory[i].quantity)
           /\ last'.qty <= StockValue(inventory[i].quantity))
          => (/\ last'.res = "success"
              /\ NumericCell(inventory'[i].quantity)
              /\ StockValue(inventory'[i].quantity)
                    = StockValue(inventory[i].quantity) - last'.qty
              /\ Len(orders') = Len(orders) + 1
              /\ SubSeq(orders', 1, Len(orders)) = orders
              /\ CellText(orders'[Len(orders')].status) = Pending
              /\ IsGeneratedId(CellText(orders'[Len(orders')].order_id)))]_vars

(***************************************************************************)
(* C3: a successful single-item create on a numerically tracked product    *)
(* followed by the cancel of the order it created leaves the product's     *)
(* stock at its value before the create (the cancel adds back exactly the  *)
(* quantity the create deducted).                                          *)
(***************************************************************************)
C3_CreateCancelRoundTrip ==
    [][(/\ last.op = "create" /\ last.res = "success" /\ last.writes = 1
        /\ IsCall("cancel")
        /\ last'.order_id = last.order_id)
       => (/\ last'.res = "success"
           /\ StockValue(inventory'[last.row].quantity)
                 = StockValue(inventory[last.row].quantity) + last.qty)]_vars

(***************************************************************************)
(* C8: a single-item update that changes only the quantity (old o, new n)  *)
(* of an order on a numerically tracked product with stock S returns       *)
(* insufficient_stock and keeps S when n > o and S < n - o, and otherwise  *)
(* leaves the stock at exactly S - (n - o).                                *)
(***************************************************************************)
C8_QuantityOnlyUpdate ==
    [][\A j \in 1..Len(orders), i \in 1..Len(inventory) :
          LET o == PyInt(CellText(orders[j].quantity))
              n == last'.items[1].v
              S == StockValue(inventory[i].quantity)
          IN (/\ IsCall("update")
              /\ Addressed(last'.order_id) = j
              /\ last'.name = NoText
              /\ last'.items[1].some
              /\ o.ok /\ n # o.v
              /\ Matched(CellText(orders[j].product)) = i
              /\ NumericCell(inventory[i].quantity))
             => IF n > o.v /\ S < n - o.v
                THEN last'.res = "insufficient_stock" /\ inventory' = inventory
                ELSE /\ last'.res = "success"
                     /\ StockValue(inventory'[i].quantity) = S - (n - o.v)
                     /\ \A r \in 1..Len(inventory) :
                           r # i => inventory'[r] = inventory[r]]_vars

(***************************************************************************)
(* C9: after a successful single-item update that changes the product,     *)
(* the old product's stock is its prior value plus the order quantity o    *)
(* and the new product's stock is its prior value minus the final quantity *)
(* f, for every pair of names the lookup resolves (when both names resolve *)
(* to one row, that row carries both adjustments).                         *)
(***************************************************************************)
C9_ProductChangeUpdate ==
    [][\A j \in 1..Len(orders), io \in 1..Len(inventory), ik \in 1..Len(inventory) :
          LET o == PyInt(CellText(orders[j].quantity))
              f == IF last'.items[1].some THEN last'.items[1].v ELSE o.v
              So == StockValue(inventory[io].quantity)
              Sk == StockValue(inventory[ik].quantity)
          IN (/\ IsCall("update")
              /\ last'.res = "success"
              /\ Addressed(last'.order_id) = j
              /\ last'.name # NoText
              /\ Lower(last'.name) # Lower(CellText(orders[j].product))
              /\ o.ok
              /\ Matched(CellText(orders[j].product)) = io
              /\ Matched(last'.name) = ik
              /\ NumericCell(inventory[io].quantity)
              /\ NumericCell(inventory[ik].quantity))
             => IF io = ik
                THEN StockValue(inventory'[io].quantity) = So + o.v - f
                ELSE /\ StockValue(inventory'[io].quantity) = So + o.v
                     /\ StockValue(inventory'[ik].quantity) = Sk - f]_vars

C6_AllValidatedBeforeWrites ==
    [][LET tokens == Split(last'.name, ",")
           items == ParsedItems(tokens)
       IN (/\ IsCall("multi_create")
           /\ ParseError(tokens) = "none"
           /\ \E k \in 1..Len(items) :
                 LET i == Matched(items[k].name)
                 IN \/ i = 0
                    \/ /\ NumericCell(inventory[i].quantity)
                       /\ StockValue(inventory[i].quantity) < items[k].quantity)
          => (/\ last'.res \in {"product_not_found", "insufficient_stock"}
              /\ inventory' = inventory
              /\ orders' = orders)]_vars

(***************************************************************************)
(* C7: after a successful multi-item create, each numerically tracked      *)
(* row's stock has decreased by the quantities ordered for it (all of     *)
(* them when several entries resolve to the row), and the order is one new *)
(* row holding the comma-joined inventory names and the index-aligned      *)
(* comma-joined quantities under one order id.                             *)
(***************************************************************************)
RECURSIVE OrderedFor(_, _)
OrderedFor(items, i) ==
    IF Len(items) = 0 THEN 0
    ELSE (IF Matched(Head(items).name) = i THEN Head(items).quantity ELSE 0)
         + OrderedFor(Tail(items), i)

C7_EachItemDecremented ==
    [][LET items == last'.items
       IN (IsCall("multi_create") /\ last'.res = "success")
          => (/\ \A i \in 1..Len(inventory) :
                    NumericCell(inventory[i].quantity)
                    => /\ NumericCell(inventory'[i].quantity)
                       /\ StockValue(inventory'[i].quantity)
                             = StockValue(inventory[i].quantity) - OrderedFor(items, i)
              /\ Len(orders') = Len(orders) + 1
              /\ SubSeq(orders', 1, Len(orders)) = orders
              /\ CellText(orders'[Len(orders')].order_id) = last'.order_id
              /\ Split(CellText(orders'[Len(orders')].product), ",")
                    = [k \in 1..Len(items) |->
                          CellText(inventory[Matched(items[k].name)].product)]
              /\ Split(CellText(orders'[Len(orders')].quantity), ",")
                    = [k \in 1..Len(items) |-> IntToStr(items[k].quantity)])]_vars

(***************************************************************************)
(* C10: multi-item update computes set-difference deltas between the old   *)
(* and the new name -> quantity maps: removed items are restored in full,  *)
(* reduced items by the reduction, added items are deducted in full,       *)
(* increased items by the increase, and an item whose quantity is          *)
(* unchanged is in neither list.                                           *)
(***************************************************************************)
ListNames(list) == {list[k].name : k \in 1..Len(list)}
ListHas(list, name, quantity) ==
    \E k \in 1..Len(list) : list[k] = Entry(name, quantity)

\* the diff of the maps old and new is exactly (restore, deduct)
IsSetDifference(old, new, restore, deduct) ==
    /\ \A k \in ListNames(old) \cup ListNames(new) :
          IF ~DictHas(new, k)
          THEN ListHas(restore, k, DictGet(old, k)) /\ k \notin ListNames(deduct)
          ELSE IF ~DictHas(old, k)
          THEN ListHas(deduct, k, DictGet(new, k)) /\ k \notin ListNames(restore)
          ELSE IF DictGet(new, k) < DictGet(old, k)
          THEN /\ ListHas(restore, k, DictGet(old, k) - DictGet(new, k))
               /\ k \notin ListNames(deduct)
          ELSE IF DictGet(new, k) > DictGet(old, k)
          THEN /\ ListHas(deduct, k, DictGet(new, k) - DictGet(old, k))
               /\ k \notin ListNames(restore)
          ELSE k \notin ListNames(restore) /\ k \notin ListNames(deduct)
    /\ ListNames(restore) \subseteq ListNames(old)
    /\ ListNames(deduct) \subseteq ListNames(new)
    /\ Cardinality(ListNames(restore)) = Len(restore)
    /\ Cardinality(ListNames(deduct)) = Len(deduct)

\* a multi-item update that got as far as computing the two lists
DiffComputed(j) ==
    /\ IsCall("multi_update")
    /\ Addressed(last'.order_id) = j
    /\ last'.name # NoText
    /\ last'.res \in {"success", "insufficient_stock", "new_product_not_found"}

OldMap(j) ==
    ProductDict(ParseStoredProducts(CellText(orders[j].product),
                                    CellText(orders[j].quantity)))
NewMap == ProductDict(ParsedItems(Split(last'.name, ",")))

\* C10 with its last clause read of the cell: the lists are the set
\* difference and the stock of an unchanged item is not written by the call
C10_UnchangedItemNotWritten ==
    [][\A j \in 1..Len(orders) :
          DiffComputed(j)
          => /\ IsSetDifference(OldMap(j), NewMap, last'.restore, last'.deduct)
             /\ \A k \in ListNames(OldMap(j)) \cap ListNames(NewMap) :
                   (DictGet(OldMap(j), k) = DictGet(NewMap, k) /\ Matched(k) # 0)
                   => inventory'[Matched(k)] = inventory[Matched(k)]]_vars

\* C10, as the code has it: the two lists are the set difference of the
\* maps, an unchanged item is in neither, and the only quantity cells the
\* call writes are those of the rows that the names on the two lists
\* resolve to (an unchanged item's row among them when another name on a
\* list resolves to the same row)
C10_SetDifferenceDeltas ==
    [][\A j \in 1..Len(orders) :
          DiffComputed(j)
          => /\ IsSetDifference(OldMap(j), NewMap, last'.restore, last'.deduct)
             /\ \A i \in 1..Len(inventory) :
                   inventory'[i] # inventory[i]
                   => \E k \in ListNames(last'.restore) \cup ListNames(last'.deduct) :
                         Matched(k) = i]_vars

C10_Witness ==
    /\ last.op = "multi_update"
    /\ last.res = "success"
    /\ Len(last.restore) > 0
    /\ Len(last.deduct) > 0
    /\ \E k \in 1..Len(last.items) :
          /\ Lower(last.items[k].name) \notin ListNames(last.restore)
          /\ Lower(last.items[k].name) \notin ListNames(last.deduct)

(***************************************************************************)
(* C11: a multi-item update that returns insufficient_stock or             *)
(* new_product_not_found has modified no inventory quantity cell and no    *)
(* orders-row cell: every deduct-list item is validated before any change  *)
(* is committed.                                                           *)
(***************************************************************************)
C11_UpdateRejectedBeforeWrites ==
    [][(IsCall("multi_update")
          /\ last'.res \in {"insufficient_stock", "new_product_not_found"})
         => (inventory' = inventory /\ orders' = orders)]_vars

(***************************************************************************)
(* The order lifecycle: orders are created by the tools, their status cell *)
(* is edited on the sheet by the business owner (no tool writes Shipped or *)
(* Delivered), and both cancel tools read whatever status they find.       *)
(***************************************************************************)
TeaOneGelOne == <<"T","e","a",":","1",",","g","e","l",":","1">>
TeaOne == <<"T","e","a",":","1">>

OwnerStatuses == {Shipped, Delivered}

\* the owner overwrites the status cell of a Pending order row
OwnerSetsStatus(j, status) ==
    /\ j \in 1..Len(orders)
    /\ CellText(orders[j].status) = Pending
    /\ orders' = UpdateOrderCell(orders, OrderRowIndex(j), "status", status)
    /\ UNCHANGED <<inventory, recent_single, recent_multi, now, ticks, last,
                   inflight, classifier, reconciler, inventory_headers>>

LifecycleLists == {GelOneGelTwo, TeaOneGelOne, TeaOne}

NextLifecycle ==
    \/ \E c \in Customers, q \in Quantities : ProcessCustomerOrder(c, LowerGel, q)
    \/ \E c \in Customers, l \in LifecycleLists :
          ProcessMultipleProductsOrder(c, l)
    \/ \E j \in 1..Len(orders), s \in OwnerStatuses : OwnerSetsStatus(j, s)
    \/ \E id \in KnownOrderIds : CancelCustomerOrder(id)
    \/ \E id \in KnownOrderIds : CancelMultipleProductsOrder(id)
    \/ Tick

SpecLifecycle == Init /\ [][NextLifecycle]_vars

\* the status text of the orders row an order id addresses, before the call
StatusOf(order_id) ==
    Strip(CellText(orders[Addressed(order_id)].status))

\* a status the cancel tools are to refuse as invalid
IsOtherStatus(status) ==
    /\ status # NoText
    /\ Lower(status) \notin {Lower(Pending), Lower(Cancelled), Lower(Delivered)}

(***************************************************************************)
(* C12: a cancel, single-item or multi-item, of an order whose status is a *)
(* non-empty value other than Pending, Cancelled or Delivered (Shipped)    *)
(* returns invalid_status_for_cancellation and changes neither inventory   *)
(* nor the orders sheet.                                                   *)
(***************************************************************************)
C12_OtherStatusRejected ==
    [][((IsCall("cancel") \/ IsCall("multi_cancel"))
          /\ Addressed(last'.order_id) # 0
          /\ IsOtherStatus(StatusOf(last'.order_id)))
         => (/\ last'.res = "invalid_status_for_cancellation"
             /\ inventory' = inventory
             /\ orders' = orders)]_vars

(***************************************************************************)
(* C13: Cancelled and Delivered are terminal for the cancel tools.  The    *)
(* only change a cancel call makes to the orders sheet is to turn the      *)
(* status of a Pending (or empty-status) order into Cancelled; a cancel of *)
(* a Delivered order returns cannot_cancel_delivered; a cancel of a        *)
(* Delivered or Cancelled order leaves the orders sheet and the inventory  *)
(* as they were.                                                           *)
(***************************************************************************)
C13_TerminalStatuses ==
    [][((IsCall("cancel") \/ IsCall("multi_cancel"))
          /\ Addressed(last'.order_id) # 0)
         => LET status == Lower(StatusOf(last'.order_id))
                row_index == OrderRowIndex(Addressed(last'.order_id))
            IN  /\ orders' # orders
                     => /\ status \in {Lower(Pending), NoText}
                        /\ orders' = MarkCancelled(orders, row_index)
                /\ status = Lower(Delivered)
                     => /\ last'.res = "cannot_cancel_delivered"
                        /\ inventory' = inventory
                        /\ orders' = orders
                /\ status = Lower(Cancelled)
                     => /\ inventory' = inventory
                        /\ orders' = orders]_vars

(***************************************************************************)
(* C14: a successful cancel of a Pending order adds, for every item on the *)
(* order, the item's full ordered quantity to its inventory row when that  *)
(* row's quantity is numeric, leaves a non-numeric quantity cell as it is  *)
(* (the cancel still succeeds), and sets the order's status cell to        *)
(* Cancelled in place.                                                     *)
(***************************************************************************)
C14_CancelRestoresEveryItem ==
    [][((IsCall("cancel") \/ IsCall("multi_cancel"))
          /\ last'.res = "success"
          /\ Addressed(last'.order_id) # 0
          /\ Lower(StatusOf(last'.order_id)) = Lower(Pending))
         => LET j == Addressed(last'.order_id)
                order == GetSheetData(orders)[j]
                items == ParseStoredProducts(order.product, order.quantity)
            IN  /\ Len(inventory') = Len(inventory)
                /\ \A i \in 1..Len(inventory) :
                      IF NumericCell(inventory[i].quantity)
                      THEN /\ NumericCell(inventory'[i].quantity)
                           /\ StockValue(inventory'[i].quantity)
                                 = StockValue(inventory[i].quantity)
                                      + OrderedFor(items, i)
                      ELSE inventory'[i] = inventory[i]
                /\ orders' = MarkCancelled(orders, OrderRowIndex(j))]_vars

(***************************************************************************)
(* Service items: both create tools addressed at a row whose quantity cell *)
(* holds a word instead of a number.                                       *)
(***************************************************************************)
ServiceQueries == {Tea, LowerGel}
ServiceLists == {TeaOne, TeaOneGelOne}

NextService ==
    \/ \E c \in Customers, p \in ServiceQueries, q \in Quantities :
          ProcessCustomerOrder(c, p, q)
    \/ \E c \in Customers, l \in ServiceLists : ProcessMultipleProductsOrder(c, l)
    \/ Tick

SpecService == Init /\ [][NextService]_vars

\* the row a name resolves to exists and its quantity cell is not a number
IsServiceItem(name) ==
    /\ Matched(name) # 0
    /\ ~NumericCell(inventory[Matched(name)].quantity)

(***************************************************************************)
(* C15: a create that is not answered from the dedupe cache and whose      *)
(* product resolves to a row with a non-numeric quantity cell ("Daily")    *)
(* succeeds for any requested quantity and leaves that cell unwritten, in  *)
(* the single-item tool and in the multi-item tool alike.                  *)
(***************************************************************************)
C15_ServiceItemUntracked ==
    [][/\ (IsCall("create") /\ last'.res # "duplicate_prevention"
             /\ IsServiceItem(last'.name))
          => (last'.res = "success" /\ inventory' = inventory)
       /\ (IsCall("multi_create") /\ last'.res # "duplicate_prevention")
          => LET items == ParsedItems(Split(last'.name, ","))
             IN  /\ \A i \in 1..Len(inventory) :
                       ~NumericCell(inventory[i].quantity)
                       => inventory'[i] = inventory[i]
                 /\ (\A k \in 1..Len(items) : IsServiceItem(items[k].name))
                       => last'.res = "success"]_vars

(***************************************************************************)
(* The single-item update addressed at orders of either kind.              *)
(***************************************************************************)
GuardLists == {GelOneXLOne, XLOne}

NextGuard ==
    \/ \E c \in Customers, l \in GuardLists : ProcessMultipleProductsOrder(c, l)
    \/ \E id \in KnownOrderIds, p \in NewProductNames, q \in NewQuantities :
          UpdateCustomerOrder(id, p, q)
    \/ Tick

SpecGuard == Init /\ [][NextGuard]_vars

\* the stored product or quantity cell of the addressed order holds a comma
HasCommaField(order_id) ==
    /\ Addressed(order_id) # 0
    /\ \/ Contains(CellText(orders[Addressed(order_id)].product), <<",">>)
       \/ Contains(CellText(orders[Addressed(order_id)].quantity), <<",">>)

(***************************************************************************)
(* C16: a single-item update of an order whose stored product or quantity  *)
(* field contains a comma returns multiple_products_order_detected, names  *)
(* update_multiple_products_order_tool as the tool to use, and writes      *)
(* neither to the inventory nor to the orders sheet.                       *)
(***************************************************************************)
C16_MultiOrderRefused ==
    [][(IsCall("update") /\ HasCommaField(last'.order_id))
         => (/\ last'.res = "multiple_products_order_detected"
             /\ last'.suggested_tool = "update_multiple_products_order_tool"
             /\ inventory' = inventory
             /\ orders' = orders)]_vars

C16_Witness ==
    /\ last.op = "update"
    /\ last.res = "multiple_products_order_detected"
    /\ HasCommaField(last.order_id)
    /\ \E p \in {LowerGel, XL} : last.name = p

(***************************************************************************)
(* Spreadsheet round trips that raise.  Each tool runs its round trips     *)
(* (service build, sheet reads, cell writes, row append) inside one try    *)
(* block; a round trip that raises leaves the cells written before it and  *)
(* hands control to the tool's except clause.                              *)
(***************************************************************************)
\* no except clause: the exception leaves the tool
EscapesTool(op) == "escaped"

\* the error token of each tool's except Exception clause
ExceptionResult(op) ==
    IF op \in {"create", "multi_create"} THEN "processing_failed"
    ELSE IF op \in {"update", "multi_update"} THEN "update_failed"
    ELSE "cancellation_failed"

Raised(call, step) ==
    [call EXCEPT !.res = ExceptionResult(call.op), !.raised = step]

CreateSteps == {"read", "write_inventory", "append_order"}
UpdateSteps == {"read", "write_restore", "write_deduct", "write_quantity",
                "write_order"}
CancelSteps == {"read", "write_inventory", "write_order"}

\* a compensating write: the inventory is put back as it was
RolledBack(written, original) == original

\* the except clause only builds the response: what was written stays
LeftWritten(written, original) == written

\* process_customer_order_tool with a round trip that raises
ProcessCustomerOrderRaising(customer_name, product_name, quantity, step) ==
    LET order_key == SingleOrderKey(customer_name, product_name, quantity, NoText, NoText)
        swept == SweepRecent(OwnCache(recent_single, recent_multi), now)
        inventory_data == GetSheetData(inventory)
        i == FindProduct(inventory_data, product_name)
        item == inventory_data[i]
        available_quantity == AvailableQuantity(item.quantity)
        has_quantity_tracking == HasQuantityTracking(item.quantity)
        validated == i # 0 /\ ~(has_quantity_tracking /\ available_quantity < quantity)
        call == [Call("create", "none") EXCEPT !.customer = customer_name,
                     !.name = product_name, !.qty = quantity]
    IN
    /\ last.n < MaxCalls
    /\ UNCHANGED <<inflight, classifier, reconciler, inventory_headers>>
    /\ ~InRecent(swept, order_key)
    /\ recent_single' = RecordRecent(swept, order_key, now)
    /\ UNCHANGED <<recent_multi, now, ticks, orders>>
    /\ CASE step = "read" -> inventory' = inventory
         [] step = "write_inventory" ->
               /\ validated /\ has_quantity_tracking
               /\ inventory' = inventory
         [] step = "append_order" ->
               /\ validated
               /\ inventory' =
                     IF has_quantity_tracking
                     THEN LeftWritten(
                              UpdateQuantityCell(inventory, ProductRowIndex(i),
                                                 available_quantity - quantity),
                              inventory)
                     ELSE inventory
         [] OTHER -> FALSE
    /\ last' = Raised([call EXCEPT !.row = i, !.writes =
                           IF step = "append_order" /\ has_quantity_tracking
                           THEN 1 ELSE 0], step)

\* the item's inventory write of the multi-item create takes place
CreateWrites(data, item) ==
    MultiCreateStock(data[FindProduct(data, item.name)].quantity).ok

\* process_multiple_products_order_tool with a round trip that raises
ProcessMultipleProductsOrderRaising(customer_name, products_list, step) ==
    LET order_key == MultiOrderKey(customer_name, products_list, NoText, NoText)
        swept == SweepRecent(OwnCache(recent_multi, recent_single), now)
        tokens == Split(products_list, ",")
        products_data == ParsedItems(tokens)
        inventory_data == GetSheetData(inventory)
        validated == ValidateProducts(inventory_data, products_data) = "none"
        call == [Call("multi_create", "none") EXCEPT !.customer = customer_name,
                     !.name = products_list]
    IN
    /\ last.n < MaxCalls
    /\ UNCHANGED <<inflight, classifier, reconciler, inventory_headers>>
    /\ ~InRecent(swept, order_key)
    /\ ParseError(tokens) = "none"
    /\ recent_multi' = RecordRecent(swept, order_key, now)
    /\ UNCHANGED <<recent_single, now, ticks, orders>>
    /\ CASE step = "read" -> inventory' = inventory
         [] step = "write_inventory" ->
               /\ validated
               /\ \E k \in 1..Len(products_data) :
                     /\ CreateWrites(inventory_data, products_data[k])
                     /\ inventory' = DeductValidated(inventory, inventory_data,
                                         SubSeq(products_data, 1, k - 1))
         [] step = "append_order" ->
               /\ validated
               /\ inventory' = LeftWritten(
                                   DeductValidated(inventory, inventory_data,
                                                   products_data),
                                   inventory)
         [] OTHER -> FALSE
    /\ last' = Raised([call EXCEPT !.items = products_data, !.writes =
                           IF step = "append_order"
                           THEN Cardinality({k \in 1..Len(products_data) :
                                    CreateWrites(inventory_data, products_data[k])})
                           ELSE 0], step)

\* update_customer_order_tool with a round trip that raises
UpdateCustomerOrderRaising(order_id, new_product_name, new_quantity, step) ==
    LET orders_data == GetSheetData(orders)
        j == FindOrder(orders_data, order_id)
        order == orders_data[j]
        current_product_name == order.product
        cq == PyInt(order.quantity)
        current_quantity == cq.v
        inventory_data == GetSheetData(inventory)
        product_changed == ProductChanged(new_product_name, current_product_name)
        quantity_changed == new_quantity.some /\ new_quantity.v # current_quantity
        final_quantity == IF new_quantity.some THEN new_quantity.v ELSE current_quantity
        restored == RestoreOldProduct(inventory, inventory_data,
                                      current_product_name, current_quantity)
        k == FindProduct(inventory_data, new_product_name)
        new_stock == StockOf(inventory_data[k].quantity)
        i == FindProduct(inventory_data, current_product_name)
        cur_stock == StockOf(inventory_data[i].quantity)
        single_item == /\ j # 0
                       /\ ~IsMultipleProductsOrder(order.quantity, current_product_name)
                       /\ cq.ok
        change_accepted == /\ single_item /\ product_changed /\ k # 0
                           /\ ~(new_stock.ok /\ new_stock.v < final_quantity)
        adjusts == /\ quantity_changed /\ i # 0 /\ cur_stock.ok
        adjust_accepted == /\ single_item /\ ~product_changed
                           /\ ~(adjusts /\ IncreaseRejected(cur_stock.v,
                                             current_quantity, new_quantity.v))
        call == [Call("update", "none") EXCEPT !.order_id = order_id,
                     !.name = new_product_name, !.items = <<new_quantity>>]
    IN
    /\ last.n < MaxCalls
    /\ UNCHANGED <<inflight, classifier, reconciler, inventory_headers>>
    /\ UNCHANGED <<recent_single, recent_multi, now, ticks, orders>>
    /\ CASE step = "read" -> inventory' = inventory
         [] step = "write_restore" ->
               /\ single_item /\ product_changed /\ restored # inventory
               /\ inventory' = inventory
         [] step = "write_deduct" ->
               /\ change_accepted /\ new_stock.ok
               /\ inventory' = restored
         [] step = "write_quantity" ->
               /\ adjust_accepted /\ adjusts
               /\ inventory' = inventory
         [] step = "write_order" ->
               \/ /\ change_accepted
                  /\ inventory' =
                        IF new_stock.ok
                        THEN UpdateQuantityCell(restored, ProductRowIndex(k),
                                                new_stock.v - final_quantity)
                        ELSE restored
               \/ /\ adjust_accepted /\ new_quantity.some
                  /\ inventory' =
                        IF adjusts
                        THEN UpdateQuantityCell(inventory, ProductRowIndex(i),
                                 AdjustedStock(cur_stock.v, current_quantity,
                                               new_quantity.v))
                        ELSE inventory
         [] OTHER -> FALSE
    /\ last' = Raised(call, step)

\* cancel_customer_order_tool with a round trip that raises
CancelCustomerOrderRaising(order_id, step) ==
    LET orders_data == GetSheetData(orders)
        j == FindOrder(orders_data, order_id)
        order == orders_data[j]
        oq == PyInt(order.quantity)
        product_name == order.product
        quantity_to_restore == oq.v
        proceeds == /\ j # 0 /\ oq.ok
                    /\ CancelStatusError(Strip(order.status)) = "proceed"
        inventory_data == GetSheetData(inventory)
        i == FindProduct(inventory_data, product_name)
        stock == CancelStockOf(inventory_data[i].quantity)
        restores == product_name # NoText /\ quantity_to_restore > 0
                    /\ i # 0 /\ stock.ok
        call == [Call("cancel", "none") EXCEPT !.order_id = order_id]
    IN
    /\ last.n < MaxCalls
    /\ UNCHANGED <<inflight, classifier, reconciler, inventory_headers>>
    /\ UNCHANGED <<recent_single, recent_multi, now, ticks, orders>>
    /\ CASE step = "read" -> inventory' = inventory
         [] step = "write_inventory" ->
               /\ proceeds /\ restores
               /\ inventory' = inventory
         [] step = "write_order" ->
               /\ proceeds
               /\ inventory' =
                     IF restores
                     THEN UpdateQuantityCell(inventory, ProductRowIndex(i),
                                             stock.v + quantity_to_restore)
                     ELSE inventory
         [] OTHER -> FALSE
    /\ last' = Raised(call, step)

\* the item's inventory write of a multi-item restore or deduct takes place
StockWrites(data, item) ==
    /\ FindProduct(data, item.name) # 0
    /\ StockOf(data[FindProduct(data, item.name)].quantity).ok

\* update_multiple_products_order_tool with a round trip that raises
UpdateMultipleProductsOrderRaising(order_id, new_products_list, step) ==
    LET orders_data == GetSheetData(orders)
        j == FindOrder(orders_data, order_id)
        order == orders_data[j]
        current_products == ParseStoredProducts(order.product, order.quantity)
        tokens == Split(new_products_list, ",")
        new_products == ParsedItems(tokens)
        inventory_data == GetSheetData(inventory)
        old_product_dict == ProductDict(current_products)
        new_product_dict == ProductDict(new_products)
        products_to_restore == ProductsToRestore(old_product_dict, new_product_dict)
        products_to_deduct == ProductsToDeduct(old_product_dict, new_product_dict)
        restored == RestoreProducts(inventory, inventory_data, products_to_restore)
        deducted == DeductProducts(restored, inventory_data, products_to_deduct)
        syncs == /\ j # 0 /\ new_products_list # NoText
                 /\ UpdateParseError(tokens) = "none"
        call == [Call("multi_update", "none") EXCEPT !.order_id = order_id,
                     !.name = new_products_list]
    IN
    /\ last.n < MaxCalls
    /\ UNCHANGED <<inflight, classifier, reconciler, inventory_headers>>
    /\ UNCHANGED <<recent_single, recent_multi, now, ticks, orders>>
    /\ CASE step = "read" -> inventory' = inventory
         [] step = "write_restore" ->
               /\ syncs
               /\ \E k \in 1..Len(products_to_restore) :
                     /\ StockWrites(inventory_data, products_to_restore[k])
                     /\ inventory' = RestoreProducts(inventory, inventory_data,
                                         SubSeq(products_to_restore, 1, k - 1))
         [] step = "write_deduct" ->
               /\ syncs
               /\ \E k \in 1..Len(products_to_deduct) :
                     /\ StockWrites(inventory_data, products_to_deduct[k])
                     /\ DeductProducts(restored, inventory_data,
                            SubSeq(products_to_deduct, 1, k)).err = "none"
                     /\ inventory' = DeductProducts(restored, inventory_data,
                            SubSeq(products_to_deduct, 1, k - 1)).sheet
         [] step = "write_order" ->
               /\ syncs /\ deducted.err = "none"
               /\ ValidatedNewProducts(inventory_data, new_products) # <<>>
               /\ inventory' = deducted.sheet
         [] OTHER -> FALSE
    /\ last' = Raised(call, step)

\* cancel_multiple_products_order_tool with a round trip that raises
CancelMultipleProductsOrderRaising(order_id, step) ==
    LET orders_data == GetSheetData(orders)
        j == FindOrder(orders_data, order_id)
        order == orders_data[j]
        proceeds == /\ j # 0
                    /\ MultiCancelStatusError(Strip(order.status)) = "proceed"
        products_to_restore == ParseStoredProducts(order.product, order.quantity)
        inventory_data == GetSheetData(inventory)
        call == [Call("multi_cancel", "none") EXCEPT !.order_id = order_id]
    IN
    /\ last.n < MaxCalls
    /\ UNCHANGED <<inflight, classifier, reconciler, inventory_headers>>
    /\ UNCHANGED <<recent_single, recent_multi, now, ticks, orders>>
    /\ CASE step = "read" -> inventory' = inventory
         [] step = "write_inventory" ->
               /\ proceeds
               /\ \E k \in 1..Len(products_to_restore) :
                     /\ StockWrites(inventory_data, products_to_restore[k])
                     /\ inventory' = RestoreProducts(inventory, inventory_data,
                                         SubSeq(products_to_restore, 1, k - 1))
         [] step = "write_order" ->
               /\ proceeds
               /\ inventory' = RestoreProducts(inventory, inventory_data,
                                               products_to_restore)
         [] OTHER -> FALSE
    /\ last' = Raised(call, step)

FaultLists == {GelOneXLOne}
FaultNewLists == {FullGelTwo}
FaultNewProductNames == {NoText, XL}

NextFault ==
    \/ \E c \in Customers : ProcessCustomerOrder(c, LowerGel, 1)
    \/ \E c \in Customers, l \in FaultLists : ProcessMultipleProductsOrder(c, l)
    \/ \E id \in KnownOrderIds, p \in FaultNewProductNames, q \in NewQuantities :
          UpdateCustomerOrder(id, p, q)
    \/ \E id \in KnownOrderIds, l \in FaultNewLists :
          UpdateMultipleProductsOrder(id, l)
    \/ \E id \in KnownOrderIds : CancelCustomerOrder(id)
    \/ \E id \in KnownOrderIds : CancelMultipleProductsOrder(id)
    \/ \E c \in Customers, step \in CreateSteps :
          ProcessCustomerOrderRaising(c, LowerGel, 1, step)
    \/ \E c \in Customers, l \in FaultLists, step \in CreateSteps :
          ProcessMultipleProductsOrderRaising(c, l, step)
    \/ \E id \in KnownOrderIds, p \in FaultNewProductNames, q \in NewQuantities,
          step \in UpdateSteps :
          UpdateCustomerOrderRaising(id, p, q, step)
    \/ \E id \in KnownOrderIds, l \in FaultNewLists, step \in UpdateSteps :
          UpdateMultipleProductsOrderRaising(id, l, step)
    \/ \E id \in KnownOrderIds, step \in CancelSteps :
          CancelCustomerOrderRaising(id, step)
    \/ \E id \in KnownOrderIds, step \in CancelSteps :
          CancelMultipleProductsOrderRaising(id, step)
    \/ Tick

SpecFault == Init /\ [][NextFault]_vars

\* the result tokens of the six tools' JSON responses
StructuredResults ==
    {"success", "duplicate_prevention", "product_not_found", "insufficient_stock",
     "processing_failed", "invalid_format", "parsing_error", "order_not_found",
     "multiple_products_order_detected", "new_product_not_found", "update_failed",
     "already_cancelled", "cannot_cancel_delivered",
     "invalid_status_for_cancellation", "cancellation_failed"}

LifecycleOps ==
    {"create", "update", "cancel", "multi_create", "multi_update", "multi_cancel"}

C18_SummaryNeverFails ==
    [][(IsCall("create")
          /\ Len(orders') = Len(orders) + 1
          /\ last'.row # 0
          /\ inventory' # inventory)
         => last'.res = "success"]_vars

(***************************************************************************)
(* The dedupe window: both create tools over a clock that can pass the     *)
(* window more than once.                                                  *)
(***************************************************************************)
WindowTick ==
    /\ ticks < MaxTicks + 1
    /\ \E d \in TickSteps : now' = now + d
    /\ ticks' = ticks + 1
    /\ UNCHANGED <<inventory, orders, recent_single, recent_multi, last, inflight,
                 classifier, reconciler, inventory_headers>>

WindowQueries == {LowerGel, Soda}
WindowLists == {GelOneXLOne, XLOne}

NextWindow ==
    \/ \E c \in Customers, p \in WindowQueries, q \in Quantities :
          ProcessCustomerOrder(c, p, q)
    \/ \E c \in Customers, l \in WindowLists : ProcessMultipleProductsOrder(c, l)
    \/ WindowTick

SpecWindow == Init /\ [][NextWindow]_vars

\* the dedupe key of the create call recorded in last', and the cache it uses
KeyOfCall(call) ==
    IF call.op = "create"
    THEN SingleOrderKey(call.customer, call.name, call.qty, NoText, NoText)
    ELSE MultiOrderKey(call.customer, call.name, NoText, NoText)

(***************************************************************************)
(* C19: on every create call the tool's cache is swept, so that afterwards *)
(* it holds only keys recorded less than 30 seconds ago; a create whose    *)
(* key was recorded 30 seconds ago or earlier is not answered as a         *)
(* duplicate; a create answered as a duplicate leaves the key's recording  *)
(* time as it was.                                                         *)
(***************************************************************************)
C19_DedupeWindow ==
    [][\A op \in {"create", "multi_create"} :
          IsCall(op)
          => LET cache == IF op = "create" THEN recent_single ELSE recent_multi
                 swept == IF op = "create" THEN recent_single' ELSE recent_multi'
                 key == KeyOfCall(last')
             IN  /\ \A e \in swept : now - e.t < 30
                 /\ (\A e \in cache : e.k = key => now - e.t >= 30)
                       => last'.res # "duplicate_prevention"
                 /\ last'.res = "duplicate_prevention"
                       => {e \in swept : e.k = key} = {e \in cache : e.k = key}]_vars

C19_Witness ==
    /\ last.op = "create"
    /\ last.res = "duplicate_prevention"
    /\ now = DedupeWindow - 1
    /\ recent_single = {[k |-> KeyOfCall(last), t |-> 0]}

(***************************************************************************)
(* Interleaved single-item creates.  Each invocation of                    *)
(* process_customer_order_tool takes its spreadsheet round trips one per   *)
(* step: read the inventory sheet, read the orders sheet, write the        *)
(* quantity cell, append the order row.  Nothing orders the round trips of *)
(* two invocations against each other.                                     *)
(***************************************************************************)
Sara == <<"S","a","r","a">>
RaceCustomers == {Ali, Sara}

\* what the invocation found in the inventory it read
ReadRow(p) == FindProduct(inflight[p].inventory_data, inflight[p].name)
ReadItem(p) == inflight[p].inventory_data[ReadRow(p)]
ReadAvailable(p) == AvailableQuantity(ReadItem(p).quantity)
ReadTracking(p) == HasQuantityTracking(ReadItem(p).quantity)

\* the invocation returns: its response becomes the latest call
Return(p, res, order_id) ==
    /\ inflight' = [inflight EXCEPT ![p].pc = "done", ![p].res = res]
    /\ last' = [Call("create", res) EXCEPT !.customer = inflight[p].customer,
                    !.name = inflight[p].name, !.qty = inflight[p].qty,
                    !.order_id = order_id]

\* the stock is read again when the cell is written
StockReread(read_stock, cell_stock) == cell_stock

\* new_quantity = available_quantity - quantity: the stock read at Step 1
StockAtWrite(read_stock, cell_stock) == read_stock

\* the tool is invoked: dedupe bookkeeping, no round trip yet
BeginCreate(p, customer_name, product_name, quantity) ==
    LET order_key == SingleOrderKey(customer_name, product_name, quantity, NoText, NoText)
        swept == SweepRecent(OwnCache(recent_single, recent_multi), now)
        begun == [inflight EXCEPT ![p].customer = customer_name,
                      ![p].name = product_name, ![p].qty = quantity]
    IN
    /\ inflight[p].pc = "idle"
    /\ UNCHANGED <<classifier, reconciler, inventory_headers>>
    /\ UNCHANGED <<inventory, orders, recent_multi, now, ticks>>
    /\ IF InRecent(swept, order_key)
       THEN /\ recent_single' = swept
            /\ inflight' = [begun EXCEPT ![p].pc = "done",
                                ![p].res = "duplicate_prevention"]
            /\ last' = [Call("create", "duplicate_prevention") EXCEPT
                            !.customer = customer_name, !.name = product_name,
                            !.qty = quantity]
       ELSE /\ recent_single' = RecordRecent(swept, order_key, now)
            /\ inflight' = [begun EXCEPT ![p].pc = "read_inventory"]
            /\ UNCHANGED last

\* Step 1: get_sheet_data of the inventory sheet
ReadInventorySheet(p) ==
    /\ inflight[p].pc = "read_inventory"
    /\ UNCHANGED <<classifier, reconciler, inventory_headers>>
    /\ inflight' = [inflight EXCEPT ![p].pc = "read_orders",
                        ![p].inventory_data = GetSheetData(inventory)]
    /\ UNCHANGED <<inventory, orders, recent_single, recent_multi, now, ticks, last>>

\* Step 2: get_sheet_data of the orders sheet, then the checks on what was read
ReadOrdersSheet(p) ==
    /\ inflight[p].pc = "read_orders"
    /\ UNCHANGED <<classifier, reconciler, inventory_headers>>
    /\ UNCHANGED <<inventory, orders, recent_single, recent_multi, now, ticks>>
    /\ IF ReadRow(p) = 0
       THEN Return(p, "product_not_found", NoText)
       ELSE IF ReadTracking(p) /\ ReadAvailable(p) < inflight[p].qty
       THEN Return(p, "insufficient_stock", NoText)
       ELSE /\ inflight' = [inflight EXCEPT ![p].pc =
                               IF ReadTracking(p) THEN "write_inventory"
                               ELSE "append_order"]
            /\ UNCHANGED last

\* Step 6: the quantity cell is overwritten
WriteQuantity(p) ==
    /\ inflight[p].pc = "write_inventory"
    /\ UNCHANGED <<classifier, reconciler, inventory_headers>>
    /\ inventory' = UpdateQuantityCell(inventory, ProductRowIndex(ReadRow(p)),
                        StockAtWrite(ReadAvailable(p),
                            AvailableQuantity(CellText(inventory[ReadRow(p)].quantity)))
                        - inflight[p].qty)
    /\ inflight' = [inflight EXCEPT ![p].pc = "append_order"]
    /\ UNCHANGED <<orders, recent_single, recent_multi, now, ticks, last>>

\* Step 7: the order row is appended and the response is built
AppendOrderRow(p) ==
    /\ inflight[p].pc = "append_order"
    /\ UNCHANGED <<classifier, reconciler, inventory_headers>>
    /\ orders' = Append(orders,
          SingleOrderRow(OrderId(now), inflight[p].customer,
                         StoredProductName(ReadItem(p), inflight[p].name),
                         inflight[p].qty))
    /\ Return(p, IF SummaryRaises(ReadItem(p).price)
                 THEN "processing_failed" ELSE "success", OrderId(now))
    /\ UNCHANGED <<inventory, recent_single, recent_multi, now, ticks>>

NextRace ==
    \/ \E p \in Invocations, c \in RaceCustomers, q \in Quantities :
          BeginCreate(p, c, LowerGel, q)
    \/ \E p \in Invocations : ReadInventorySheet(p)
    \/ \E p \in Invocations : ReadOrdersSheet(p)
    \/ \E p \in Invocations : WriteQuantity(p)
    \/ \E p \in Invocations : AppendOrderRow(p)

SpecRace == Init /\ [][NextRace]_vars

\* both invocations have returned success for the same row after reading
\* the same available value
BothSucceededOnSameRead(p, r) ==
    /\ p # r
    /\ inflight[p].pc = "done" /\ inflight[p].res = "success"
    /\ inflight[r].pc = "done" /\ inflight[r].res = "success"
    /\ ReadRow(p) = ReadRow(r)
    /\ ReadTracking(p) /\ ReadTracking(r)
    /\ ReadAvailable(p) = ReadAvailable(r)

HeldBy(row, i) ==
    IF Lower(Strip(CellText(row.status))) = Lower(Pending)
    THEN OrderedFor(ParseStoredProducts(CellText(row.product),
                                        CellText(row.quantity)), i)
    ELSE 0

RECURSIVE PendingTotal(_, _)
PendingTotal(rows, i) ==
    IF Len(rows) = 0 THEN 0
    ELSE HeldBy(Head(rows), i) + PendingTotal(Tail(rows), i)

\* the stock the owner entered: MaxStock for the first row in every initial
\* inventory, at most MaxQty for the second
EnteredStock(i) == IF i = 1 THEN MaxStock ELSE MaxQty

(***************************************************************************)
(* C21: no overselling.  After any sequence of create, update and cancel   *)
(* calls run one at a time, the total quantity held by the Pending orders  *)
(* of a numerically tracked product does not exceed the stock that was     *)
(* entered for it.                                                         *)
(***************************************************************************)
C21_NoOverselling ==
    \A i \in 1..Len(inventory) :
       NumericCell(inventory[i].quantity)
       => PendingTotal(orders, i) <= EnteredStock(i)

(***************************************************************************)
(* C22: no compensating rollback.  When a create, single-item or           *)
(* multi-item, has written decremented quantities and the append of the    *)
(* order row then raises, the call returns processing_failed, no order row *)
(* is added, and every quantity cell it wrote stays decremented.           *)
(***************************************************************************)
C22_NoRollback ==
    [][\A op \in {"create", "multi_create"} :
          (IsCall(op) /\ last'.raised = "append_order" /\ last'.writes > 0)
          => /\ last'.res = "processing_failed"
             /\ orders' = orders
             /\ inventory' # inventory
             /\ \A i \in 1..Len(inventory) :
                   inventory'[i] # inventory[i]
                   => /\ NumericCell(inventory[i].quantity)
                      /\ NumericCell(inventory'[i].quantity)
                      /\ StockValue(inventory'[i].quantity)
                            < StockValue(inventory[i].quantity)]_vars

C22_Witness ==
    /\ last.op = "multi_create"
    /\ last.raised = "append_order"
    /\ last.writes = 2
    /\ last.res = "processing_failed"
    /\ orders = <<>>
    /\ StockValue(inventory[1].quantity) = MaxStock - 1

(***************************************************************************)
(* C23: duplicate suppression belongs to the create tools only.  An update *)
(* or a cancel, single or multi, leaves both dedupe caches as they were    *)
(* and is never answered as a duplicate, however soon it is repeated.      *)
(* Single-item create reads and records only its own cache, multi-item     *)
(* create only its own: a create is answered as a duplicate exactly when   *)
(* its key was recorded by the same tool less than 30 seconds ago.         *)
(***************************************************************************)
C23_DedupeOnlyOnCreate ==
    [][/\ \A op \in {"update", "cancel", "multi_update", "multi_cancel"} :
             IsCall(op)
             => /\ recent_single' = recent_single
                /\ recent_multi' = recent_multi
                /\ last'.res # "duplicate_prevention"
       /\ IsCall("create")
          => /\ recent_multi' = recent_multi
             /\ recent_single' \subseteq
                   recent_single \cup {[k |-> KeyOfCall(last'), t |-> now]}
             /\ last'.res = "duplicate_prevention"
                   <=> \E e \in recent_single :
                          e.k = KeyOfCall(last') /\ now - e.t < DedupeWindow
       /\ IsCall("multi_create")
          => /\ recent_single' = recent_single
             /\ recent_multi' \subseteq
                   recent_multi \cup {[k |-> KeyOfCall(last'), t |-> now]}
             /\ last'.res = "duplicate_prevention"
                   <=> \E e \in recent_multi :
                          e.k = KeyOfCall(last') /\ now - e.t < DedupeWindow]_vars

\* a cancel repeated in the same second is evaluated again: it finds the
\* order already cancelled, and only the create's key is in a cache
C23_Witness ==
    /\ last.op = "cancel"
    /\ last.res = "already_cancelled"
    /\ ticks = 0
    /\ recent_single # {}
    /\ recent_multi = {}

(***************************************************************************)
(* smart_column_detection: the classifier of a sheet row's columns          *)
(***************************************************************************)
\* str.replace(a, b) for a single character a
ReplaceChar(s, a, b) == [i \in 1..Len(s) |-> IF s[i] = a THEN b ELSE s[i]]

\* str.replace(a, '')
RemoveChar(s, a) == SelectSeq(s, LAMBDA c : c # a)

\* str.startswith, str.endswith
StartsWith(s, q) == Len(q) <= Len(s) /\ SubSeq(s, 1, Len(q)) = q
EndsWith(s, q) == Len(q) <= Len(s) /\ SubSeq(s, Len(s) - Len(q) + 1, Len(s)) = q

\* str(key).strip().lower().replace(' ', '_').replace('-', '_')
\*         .replace('(', '').replace(')', '')
CleanKey(key) ==
    RemoveChar(RemoveChar(ReplaceChar(ReplaceChar(Lower(Strip(key)),
                                                  " ", "_"), "-", "_"),
                          "("), ")")

\* the keys of column_mappings, in the order of the dictionary
ColumnTypes == <<"product_name", "quantity", "price", "id", "status", "size",
                 "color", "weight">>

\* column_mappings[col_type]
PossibleNames(col_type) ==
    CASE col_type = "product_name" ->
           <<<<"i","t","e","m","_","n","a","m","e">>,
             <<"p","r","o","d","u","c","t","_","n","a","m","e">>,
             <<"p","r","o","d","u","c","t","_","t","i","t","l","e">>,
             <<"n","a","m","e">>, <<"p","r","o","d","u","c","t">>,
             <<"t","i","t","l","e">>,
             <<"m","e","r","c","h","a","n","d","i","s","e">>,
             <<"a","r","t","i","c","l","e">>,
             <<"s","k","u","_","n","a","m","e">>>>
      [] col_type = "quantity" ->
           <<<<"q","u","a","n","t","i","t","y">>, <<"q","t","y">>,
             <<"s","t","o","c","k">>, <<"a","v","a","i","l","a","b","l","e">>,
             <<"i","n","v","e","n","t","o","r","y">>, <<"c","o","u","n","t">>,
             <<"u","n","i","t","s">>, <<"p","i","e","c","e","s">>,
             <<"a","m","o","u","n","t">>,
             <<"a","v","a","i","l","a","b","i","l","i","t","y">>,
             <<"i","n","_","s","t","o","c","k">>>>
      [] col_type = "price" ->
           <<<<"u","n","i","t","_","p","r","i","c","e">>,
             <<"p","r","i","c","e">>, <<"c","o","s","t">>,
             <<"a","m","o","u","n","t">>, <<"r","a","t","e">>,
             <<"s","e","l","l","i","n","g","_","p","r","i","c","e">>,
             <<"r","e","t","a","i","l","_","p","r","i","c","e">>,
             <<"m","r","p">>, <<"v","a","l","u","e">>, <<"p","k","r">>,
             <<"u","s","d">>, <<"i","n","r">>>>
      [] col_type = "id" ->
           <<<<"i","t","e","m","_","i","d">>,
             <<"p","r","o","d","u","c","t","_","i","d">>, <<"i","d">>,
             <<"s","k","u">>, <<"c","o","d","e">>,
             <<"b","a","r","c","o","d","e">>,
             <<"i","t","e","m","_","c","o","d","e">>,
             <<"p","r","o","d","u","c","t","_","c","o","d","e">>,
             <<"o","r","d","e","r","_","n","o">>,
             <<"o","r","d","e","r","_","i","d">>,
             <<"o","r","d","e","r","i","d">>>>
      [] col_type = "status" ->
           <<<<"s","t","a","t","u","s">>,
             <<"a","v","a","i","l","a","b","i","l","i","t","y">>,
             <<"a","v","a","i","l","a","b","l","e">>,
             <<"a","c","t","i","v","e">>, <<"e","n","a","b","l","e","d">>,
             <<"p","a","y","m","e","n","t","_","s","t","a","t","u","s">>,
             <<"o","r","d","e","r","_","s","t","a","t","u","s">>,
             <<"s","t","o","c","k","_","s","t","a","t","u","s">>>>
      [] col_type = "size" ->
           <<<<"s","i","z","e">>, <<"d","i","m","e","n","s","i","o","n","s">>,
             <<"v","a","r","i","a","n","t">>, <<"o","p","t","i","o","n">>,
             <<"t","y","p","e">>>>
      [] col_type = "color" ->
           <<<<"c","o","l","o","r">>, <<"c","o","l","o","u","r">>,
             <<"s","h","a","d","e">>, <<"v","a","r","i","a","n","t">>>>
      [] col_type = "weight" ->
           <<<<"w","e","i","g","h","t">>, <<"m","a","s","s">>,
             <<"v","o","l","u","m","e">>, <<"m","l">>,
             <<"g","r","a","m","s">>, <<"k","g">>, <<"o","z">>>>

\* the pattern also holds when the synonym is only a part of the key
IsLooseMatch(clean_key, possible_name) == Contains(clean_key, possible_name)

\* if clean_key == possible_name
IsExactMatch(clean_key, possible_name) == clean_key = possible_name

\* startswith(possible_name + '_'), endswith('_' + possible_name),
\* '_' + possible_name + '_' in clean_key
IsPartialMatch(clean_key, possible_name) ==
    \/ StartsWith(clean_key, possible_name \o <<"_">>)
    \/ EndsWith(clean_key, <<"_">> \o possible_name)
    \/ Contains(clean_key, <<"_">> \o possible_name \o <<"_">>)

MatchesExactly(key, col_type) ==
    \E i \in DOMAIN PossibleNames(col_type) :
       IsExactMatch(CleanKey(key), PossibleNames(col_type)[i])

MatchesPartially(key, col_type) ==
    \E i \in DOMAIN PossibleNames(col_type) :
       IsPartialMatch(CleanKey(key), PossibleNames(col_type)[i])

\* if column_type == "all" or column_type == col_type
Selected(type, col_type) == type = "all" \/ type = col_type

SelectedTypes(type) ==
    {ColumnTypes[i] : i \in {j \in DOMAIN ColumnTypes : Selected(type, ColumnTypes[j])}}

\* the first entry of the row, in the order of the dictionary, that matches
FirstExact(row, col_type) ==
    CHOOSE k \in DOMAIN row :
       /\ MatchesExactly(row[k].key, col_type)
       /\ \A j \in 1..(k - 1) : ~MatchesExactly(row[j].key, col_type)

FirstPartial(row, col_type) ==
    CHOOSE k \in DOMAIN row :
       /\ MatchesPartially(row[k].key, col_type)
       /\ \A j \in 1..(k - 1) : ~MatchesPartially(row[j].key, col_type)

\* first pass: exact_matches, the first exactly matching entry of each type
ExactMatches(row, type) ==
    [col_type \in {c \in SelectedTypes(type) :
                      \E k \in DOMAIN row : MatchesExactly(row[k].key, c)}
        |-> FirstExact(row, col_type)]

\* second pass: the first partially matching entry of each type that has
\* no exact match
PartialMatches(row, type) ==
    [col_type \in {c \in SelectedTypes(type) :
                      /\ c \notin DOMAIN ExactMatches(row, type)
                      /\ \E k \in DOMAIN row : MatchesPartially(row[k].key, c)}
        |-> FirstPartial(row, col_type)]

\* dict.update
DictUpdate(d, e) ==
    [k \in DOMAIN d \cup DOMAIN e |-> IF k \in DOMAIN e THEN e[k] ELSE d[k]]

\* the returned dictionary: each detected type with the position in the row
\* of the entry whose key, value and clean_key it holds
SmartColumnDetection(row, type) ==
    DictUpdate(PartialMatches(row, type), ExactMatches(row, type))

(***************************************************************************)
(* Rows handed to the classifier                                           *)
(***************************************************************************)
MaxHeaders == 3

Price == <<"P","r","i","c","e">>
UnitPrice == <<"U","n","i","t"," ","P","r","i","c","e">>
PricePKR == <<"P","r","i","c","e"," ","(","P","K","R",")">>
SalePrice == <<"S","a","l","e","-","P","r","i","c","e">>
NameHeader == <<"N","a","m","e">>
FullNameHere == <<" ","F","u","l","l"," ","N","a","m","e"," ","H","e","r","e"," ">>
Variant == <<"V","a","r","i","a","n","t">>
Notes == <<"N","o","t","e","s">>

ClassifierKeys ==
    {Price, UnitPrice, PricePKR, SalePrice, NameHeader, FullNameHere, Variant, Notes}

\* rows of up to MaxHeaders entries with distinct keys
DataRows ==
    {row \in UNION {[1..n -> [key : ClassifierKeys, value : {Gel}]] :
                       n \in 1..MaxHeaders} :
        \A i, j \in DOMAIN row : i # j => row[i].key # row[j].key}

DetectableTypes == {"all", "price", "product_name", "size", "color"}

InitClassifier ==
    /\ inventory = <<>>
    /\ orders = <<>>
    /\ recent_single = {}
    /\ recent_multi = {}
    /\ now = 0
    /\ ticks = 0
    /\ last = NoCall
    /\ inflight = NoInflight
    /\ data_row \in DataRows
    /\ column_type = "none"
    /\ result = NoResult
    /\ orders_headers = <<>>
    /\ order_row_data = <<>>
    /\ inventory_headers = InventoryHeaders

\* one call smart_column_detection(data_row, type)
Detect(type) ==
    /\ column_type = "none"
    /\ column_type' = type
    /\ result' = SmartColumnDetection(data_row, type)
    /\ UNCHANGED <<inventory, orders, recent_single, recent_multi, now, ticks,
                   last, inflight, data_row, reconciler, inventory_headers>>

NextClassifier == \E type \in DetectableTypes : Detect(type)

SpecClassifier == InitClassifier /\ [][NextClassifier]_vars

\* the keys of the row, cleaned, that are one of the type's synonyms
ExactKeys(col_type) ==
    {k \in DOMAIN data_row :
        \E i \in DOMAIN PossibleNames(col_type) :
           CleanKey(data_row[k].key) = PossibleNames(col_type)[i]}

KeyAt(row, k) == row[k].key

(***************************************************************************)
(* C24: whenever a key of the row normalizes to exactly one of a type's    *)
(* synonyms, smart_column_detection gives the type to a key that matches   *)
(* exactly, wherever the keys stand in the row, and never to a key that    *)
(* only matches by prefix, suffix or interior part.                        *)
(***************************************************************************)
C24_ExactBeforePartial ==
    column_type # "none"
    => \A t \in DOMAIN ColumnTypes :
          (Selected(column_type, ColumnTypes[t]) /\ ExactKeys(ColumnTypes[t]) # {})
          => /\ ColumnTypes[t] \in DOMAIN result
             /\ result[ColumnTypes[t]] \in ExactKeys(ColumnTypes[t])

\* a partially matching key stands before the exact one, which is taken
C24_Witness ==
    /\ column_type = "all"
    /\ Len(data_row) >= 2
    /\ KeyAt(data_row, 1) = PricePKR
    /\ KeyAt(data_row, 2) = Price
    /\ "price" \in DOMAIN result
    /\ result["price"] = 2

(***************************************************************************)
(* C25: a row holding both a key "Price" and a key "Unit Price" has its     *)
(* price resolved to the "Price" entry, whichever of the two comes first.  *)
(***************************************************************************)
C25_PriceOverUnitPrice ==
    (/\ column_type \in {"all", "price"}
     /\ \E a, b \in DOMAIN data_row :
           KeyAt(data_row, a) = Price /\ KeyAt(data_row, b) = UnitPrice)
    => /\ "price" \in DOMAIN result
       /\ KeyAt(data_row, result["price"]) = Price

(***************************************************************************)
(* The row that process_customer_order_tool builds for the orders headers  *)
(***************************************************************************)
\* header.lower().replace(' ', '_').replace('(', '').replace(')', '')
\*       .replace('-', '_')
CleanHeader(header) ==
    ReplaceChar(RemoveChar(RemoveChar(ReplaceChar(Lower(header), " ", "_"),
                                      "("), ")"),
                "-", "_")

\* a header cell that holds a number is read as a number
\* (valueRenderOption UNFORMATTED_VALUE): header.lower() raises AttributeError
HeaderRaises(header) == header.num

CustomerPriorityFields ==
    <<<<"c","u","s","t","o","m","e","r","_","n","a","m","e">>,
      <<"c","u","s","t","o","m","e","r","_","e","m","a","i","l">>,
      <<"e","m","a","i","l">>,
      <<"c","u","s","t","o","m","e","r","_","a","d","d","r","e","s","s">>,
      <<"a","d","d","r","e","s","s">>,
      <<"d","e","l","i","v","e","r","y">>,
      <<"p","a","y","m","e","n","t","_","m","o","d","e">>,
      <<"p","a","y","m","e","n","t">>,
      <<"m","o","d","e">>>>

\* customer_provided_data
CustomerProvidedData(customer_name, customer_email, customer_address, payment_mode, quantity, order_id) ==
    [customer_name |-> customer_name, customer_email |-> customer_email,
     customer_address |-> customer_address, payment_mode |-> payment_mode,
     quantity |-> IntToStr(quantity), status |-> Pending, order_id |-> order_id]

CustomerMappings(data) ==
    <<[k |-> <<"c","u","s","t","o","m","e","r","_","e","m","a","i","l">>, v |-> data.customer_email],
      [k |-> <<"e","m","a","i","l">>, v |-> data.customer_email],
      [k |-> <<"c","u","s","t","o","m","e","r","_","n","a","m","e">>, v |-> data.customer_name],
      [k |-> <<"c","u","s","t","o","m","e","r">>, v |-> data.customer_name],
      [k |-> <<"c","u","s","t","o","m","e","r","_","a","d","d","r","e","s","s">>, v |-> data.customer_address],
      [k |-> <<"a","d","d","r","e","s","s">>, v |-> data.customer_address],
      [k |-> <<"d","e","l","i","v","e","r","y">>, v |-> data.customer_address],
      [k |-> <<"p","a","y","m","e","n","t","_","m","o","d","e">>, v |-> data.payment_mode],
      [k |-> <<"p","a","y","m","e","n","t">>, v |-> data.payment_mode],
      [k |-> <<"m","o","d","e">>, v |-> data.payment_mode]>>

\* ''.join(c for c in price_str if c.isdigit() or c == '.')
PriceNumeric(price_str) == SelectSeq(price_str, LAMBDA c : IsDigit(c) \/ c = ".")

\* str(float(price_numeric) * quantity), "" when the price is empty or float
\* raises; the prices of the rows built here hold no decimal point
SubtotalValue(price, quantity) ==
    IF price # NoText /\ AllDigits(PriceNumeric(price))
    THEN NatToStr(DigitsToNat(PriceNumeric(price)) * quantity) \o <<".", "0">>
    ELSE NoText

InventoryMappings(details, quantity) ==
    <<[k |-> <<"i","t","e","m","_","n","a","m","e">>, v |-> details.product_name],
      [k |-> <<"p","r","o","d","u","c","t","_","n","a","m","e">>, v |-> details.product_name],
      [k |-> <<"p","r","o","d","u","c","t">>, v |-> details.product_name],
      [k |-> <<"i","t","e","m">>, v |-> details.product_name],
      [k |-> <<"s","i","z","e">>, v |-> details.size],
      [k |-> <<"c","o","l","o","r">>, v |-> details.color],
      [k |-> <<"c","o","l","o","u","r">>, v |-> details.color],
      [k |-> <<"p","r","i","c","e">>, v |-> details.price],
      [k |-> <<"p","r","i","c","e","_","p","k","r">>, v |-> details.price],
      [k |-> <<"u","n","i","t","_","p","r","i","c","e">>, v |-> details.price],
      [k |-> <<"c","o","s","t">>, v |-> details.price],
      [k |-> <<"s","u","b","t","o","t","a","l">>, v |-> SubtotalValue(details.price, quantity)],
      [k |-> <<"t","o","t","a","l">>, v |-> SubtotalValue(details.price, quantity)],
      [k |-> <<"c","a","t","e","g","o","r","y">>, v |-> NoText],
      [k |-> <<"w","e","i","g","h","t">>, v |-> details.weight],
      [k |-> <<"d","e","s","c","r","i","p","t","i","o","n">>, v |-> NoText]>>

RemainingCustomerMappings(data) ==
    <<[k |-> <<"q","u","a","n","t","i","t","y">>, v |-> data.quantity],
      [k |-> <<"q","t","y">>, v |-> data.quantity],
      [k |-> <<"s","t","a","t","u","s">>, v |-> data.status],
      [k |-> <<"o","r","d","e","r","_","i","d">>, v |-> data.order_id],
      [k |-> <<"o","r","d","e","r","_","n","o">>, v |-> data.order_id],
      [k |-> <<"o","r","d","e","r">>, v |-> data.order_id],
      [k |-> <<"o","r","d","e","r","_","n","u","m","b","e","r">>, v |-> data.order_id]>>

\* any(field in clean_header for field in customer_priority_fields)
IsCustomerField(clean_header) ==
    \E i \in DOMAIN CustomerPriorityFields :
       Contains(clean_header, CustomerPriorityFields[i])

\* for key, value in mappings.items(): if key in clean_header: ...; break
\* the first mapping whose key is in the header, 0 when there is none
FirstKeyIn(mappings, clean_header) ==
    IF \E i \in DOMAIN mappings : Contains(clean_header, mappings[i].k)
    THEN CHOOSE i \in DOMAIN mappings :
            /\ Contains(clean_header, mappings[i].k)
            /\ \A j \in 1..(i - 1) : ~Contains(clean_header, mappings[j].k)
    ELSE 0

\* if inv_key in clean_header and inv_value: ...; break
\* the first mapping whose key is in the header and whose value is not empty
FirstFilledKeyIn(mappings, clean_header) ==
    IF \E i \in DOMAIN mappings :
          Contains(clean_header, mappings[i].k) /\ mappings[i].v # NoText
    THEN CHOOSE i \in DOMAIN mappings :
            /\ Contains(clean_header, mappings[i].k) /\ mappings[i].v # NoText
            /\ \A j \in 1..(i - 1) :
                  ~(Contains(clean_header, mappings[j].k) /\ mappings[j].v # NoText)
    ELSE 0

\* the value taken from the first mapping whose key is in the header
ValueOfFirstKey(mappings, clean_header) ==
    IF FirstKeyIn(mappings, clean_header) = 0 THEN NoText
    ELSE mappings[FirstKeyIn(mappings, clean_header)].v

\* one pass of the loop over orders_headers: the value appended for a header
HeaderValue(header, data, details, quantity) ==
    LET clean_header == CleanHeader(header)
        from_customer ==
            IF IsCustomerField(clean_header)
            THEN ValueOfFirstKey(CustomerMappings(data), clean_header)
            ELSE NoText
        inv_mappings == InventoryMappings(details, quantity)
        from_inventory ==
            IF FirstFilledKeyIn(inv_mappings, clean_header) = 0 THEN NoText
            ELSE inv_mappings[FirstFilledKeyIn(inv_mappings, clean_header)].v
        from_remaining ==
            ValueOfFirstKey(RemainingCustomerMappings(data), clean_header)
    IN IF from_customer # NoText THEN from_customer
       ELSE IF from_inventory # NoText THEN from_inventory
       ELSE from_remaining

\* order_row_data after the loop
OrderRowData(headers, data, details, quantity) ==
    [j \in 1..Len(headers) |-> HeaderValue(headers[j].s, data, details, quantity)]

(***************************************************************************)
(* Header lists and inputs of the row filling                              *)
(***************************************************************************)
CustomerHeader == <<"C","u","s","t","o","m","e","r">>
CustomerNameHeader == <<"C","u","s","t","o","m","e","r"," ","N","a","m","e">>
CustomerEmailHeader == <<"C","u","s","t","o","m","e","r"," ","E","m","a","i","l">>
ProductHeader == <<"P","r","o","d","u","c","t">>
OrderIdHeader == <<"O","r","d","e","r"," ","I","D">>
StatusHeader == <<"S","t","a","t","u","s">>
TotalHeader == <<"T","o","t","a","l">>
Mail == <<"a","@","b",".","c">>
Five == <<"5">>

\* a header cell in which the owner typed a number
YearHeader == Num(2024)

HeaderCells ==
    {Txt(CustomerHeader), Txt(CustomerNameHeader), Txt(CustomerEmailHeader),
     Txt(ProductHeader), Txt(OrderIdHeader), Txt(StatusHeader), Txt(TotalHeader),
     Txt(Notes), YearHeader}

\* rows[0] of the orders sheet: up to MaxHeaders header cells
HeaderLists == UNION {[1..n -> HeaderCells] : n \in 0..MaxHeaders}

\* product_details of the product found: str(value) of each detected column
ProductDetails ==
    {[product_name |-> Gel, price |-> p, size |-> NoText, color |-> NoText,
      weight |-> NoText] : p \in {Five, RsFive, NoText}}

Emails == {NoText, Mail}

InitReconciler ==
    /\ inventory = <<>>
    /\ orders = <<>>
    /\ recent_single = {}
    /\ recent_multi = {}
    /\ now = 0
    /\ ticks = 0
    /\ last = NoCall
    /\ inflight = NoInflight
    /\ data_row = <<>>
    /\ column_type = "none"
    /\ result = NoResult
    /\ orders_headers \in HeaderLists
    /\ order_row_data = <<>>
    /\ inventory_headers = InventoryHeaders

\* Step 4 of process_customer_order_tool for a product that was found: the
\* loop over orders_headers; an exception ends the call in processing_failed
BuildOrderRow(customer_name, customer_email, details, quantity) ==
    LET data == CustomerProvidedData(customer_name, customer_email, NoText,
                                     NoText, quantity, OrderId(now))
        call == [Call("build_row", "none") EXCEPT !.customer = customer_name,
                     !.name = details.product_name, !.qty = quantity]
    IN
    /\ last.n < MaxCalls
    /\ IF \E j \in DOMAIN orders_headers : HeaderRaises(orders_headers[j])
       THEN /\ order_row_data' = <<>>
            /\ last' = [call EXCEPT !.res = ExceptionResult("create"),
                             !.raised = "header"]
       ELSE /\ order_row_data' = OrderRowData(orders_headers, data, details, quantity)
            /\ last' = [call EXCEPT !.res = "built"]
    /\ UNCHANGED <<inventory, orders, recent_single, recent_multi, now, ticks,
                   inflight, classifier, orders_headers, inventory_headers>>

NextReconciler ==
    \E c \in Customers, e \in Emails, d \in ProductDetails, q \in Quantities :
       BuildOrderRow(c, e, d, q)

SpecReconciler == InitReconciler /\ [][NextReconciler]_vars


\* the keys of the three mappings of the row filling
MappingKeys ==
    LET data == CustomerProvidedData(NoText, NoText, NoText, NoText, 1, NoText)
        details == CHOOSE d \in ProductDetails : TRUE
        all == CustomerMappings(data) \o InventoryMappings(details, 1)
                  \o RemainingCustomerMappings(data)
    IN {all[i].k : i \in DOMAIN all}

\* no key of any mapping occurs in the header
MatchesNoMapping(header) ==
    header.num \/ \A k \in MappingKeys : ~Contains(CleanHeader(header.s), k)

(***************************************************************************)
(* C26: for every header list and every input the row filling ends without *)
(* an error and the row built has exactly one value per header, in header  *)
(* order; a header that matches no mapping gets the empty string.          *)
(***************************************************************************)
C26_OneValuePerHeader ==
    last.op = "build_row"
    => /\ last.res = "built"
       /\ Len(order_row_data) = Len(orders_headers)
       /\ \A j \in DOMAIN orders_headers :
             MatchesNoMapping(orders_headers[j]) => order_row_data[j] = NoText

(***************************************************************************)
(* C27: in the row built by single-item create, a column whose header      *)
(* normalizes to "customer" holds the customer name that was supplied.     *)
(***************************************************************************)
C27_CustomerColumnFilled ==
    (last.op = "build_row" /\ last.res = "built")
    => \A j \in DOMAIN orders_headers :
          CleanHeader(orders_headers[j].s) = Lower(CustomerHeader)
          => order_row_data[j] = last.customer


\* the rows of the two sheets differ at most in the status cell of row j
OnlyStatusOfRowChanged(before, after, j) ==
    /\ Len(after) = Len(before)
    /\ \A i \in 1..Len(before) : i # j => after[i] = before[i]
    /\ [after[j] EXCEPT !.status = before[j].status] = before[j]

(***************************************************************************)
(* C28: no call deletes an order row.  Across every create, update and     *)
(* cancel, single or multi, the orders sheet never gets shorter and every  *)
(* row keeps its position (its order id stays where it was); a cancel      *)
(* leaves the sheet as it was or changes exactly the status cell of the    *)
(* row of the order it names, to Cancelled.                                *)
(***************************************************************************)
C28_RowsNeverDeleted ==
    [][/\ Len(orders') >= Len(orders)
       /\ \A j \in 1..Len(orders) : orders'[j].order_id = orders[j].order_id
       /\ \A op \in {"cancel", "multi_cancel"} :
             IsCall(op)
             => \/ orders' = orders
                \/ \E j \in 1..Len(orders) :
                      /\ CellText(orders[j].order_id) = last'.order_id
                      /\ OnlyStatusOfRowChanged(orders, orders', j)
                      /\ orders'[j].status = Txt(Cancelled)]_vars

\* two rows were appended, the first was cancelled, both are in place
C28_Witness ==
    /\ last.op \in {"cancel", "multi_cancel"}
    /\ last.res = "success"
    /\ Len(orders) = 2
    /\ orders[1].status = Txt(Cancelled)
    /\ orders[2].status = Txt(Pending)

(***************************************************************************)
(* Orders that mix a row without a numeric quantity and a row with one     *)
(***************************************************************************)
XLOneTeaTwo == <<"X","L",":","1",",","T","e","a",":","2">>
TeaTwoGelTwo == <<"T","e","a",":","2",",","g","e","l",":","2">>
TeaOneXLOne == <<"T","e","a",":","1",",","X","L",":","1">>

MixedLists == {TeaOneGelOne, XLOneTeaTwo}
MixedNewLists == {TeaTwoGelTwo, TeaOneXLOne}

NextMixed ==
    \/ \E c \in Customers, l \in MixedLists : ProcessMultipleProductsOrder(c, l)
    \/ \E id \in KnownOrderIds, l \in MixedNewLists :
          UpdateMultipleProductsOrder(id, l)
    \/ \E id \in KnownOrderIds : CancelMultipleProductsOrder(id)
    \/ Tick

SpecMixed == Init /\ [][NextMixed]_vars

\* the items a multi-item call works on: the list given, or the stored list
TouchedItems(call) ==
    IF call.op = "multi_cancel" THEN call.restore ELSE call.items

\* what the call takes from stock and what it gives back, item by item
DeductedItems(call) ==
    IF call.op = "multi_create" THEN call.items
    ELSE IF call.op = "multi_update" THEN call.deduct ELSE <<>>

RestoredItems(call) == IF call.op = "multi_create" THEN <<>> ELSE call.restore

\* two items, one on a row with a numeric quantity, one on a row without
IsMixed(items) ==
    /\ Len(items) = 2
    /\ \A k \in 1..2 : Matched(items[k].name) # 0
    /\ \E a, b \in 1..2 :
          /\ NumericCell(inventory[Matched(items[a].name)].quantity)
          /\ ~NumericCell(inventory[Matched(items[b].name)].quantity)

(***************************************************************************)
(* C29: numeric handling is per row.  In a multi-item create, update or    *)
(* cancel whose two items are one on a row with a numeric quantity and one *)
(* on a row with a non-numeric quantity, the numeric row is checked (a     *)
(* deduction larger than its stock is refused with insufficient_stock) and *)
(* on success its stock is adjusted by what the call deducts and restores  *)
(* for it, while the non-numeric row is not written and does not make the  *)
(* call fail.                                                              *)
(***************************************************************************)
C29_NumericPerRow ==
    [][\A op \in {"multi_create", "multi_update", "multi_cancel"} :
          (IsCall(op) /\ IsMixed(TouchedItems(last')))
          => /\ last'.res \in {"success", "insufficient_stock"}
             /\ \A i \in 1..Len(inventory) :
                   IF NumericCell(inventory[i].quantity)
                   THEN /\ OrderedFor(DeductedItems(last'), i)
                              > StockValue(inventory[i].quantity)
                           => last'.res = "insufficient_stock"
                        /\ last'.res = "success"
                           => /\ NumericCell(inventory'[i].quantity)
                              /\ StockValue(inventory'[i].quantity)
                                    = StockValue(inventory[i].quantity)
                                      - OrderedFor(DeductedItems(last'), i)
                                      + OrderedFor(RestoredItems(last'), i)
                        /\ last'.res = "insufficient_stock"
                           => \E r \in 1..Len(inventory) :
                                 /\ NumericCell(inventory[r].quantity)
                                 /\ OrderedFor(DeductedItems(last'), r)
                                       > StockValue(inventory[r].quantity)
                   ELSE inventory'[i] = inventory[i]]_vars

(***************************************************************************)
(* Updates that change neither product nor quantity                        *)
(***************************************************************************)
UpperGel == <<"G","E","L">>

NoChangeProductNames == {NoText, UpperGel, XL}
NoChangeLists == {NoText, FullGelTwo}
NewCustomerNames == {NoText, Sara}

NextNoChange ==
    \/ \E c \in Customers, q \in Quantities : ProcessCustomerOrder(c, LowerGel, q)
    \/ \E c \in Customers : ProcessMultipleProductsOrder(c, GelOneXLOne)
    \/ \E id \in KnownOrderIds, p \in NoChangeProductNames, q \in NewQuantities,
          cn \in NewCustomerNames :
          UpdateCustomerOrderTool(id, p, q, cn)
    \/ \E id \in KnownOrderIds, l \in NoChangeLists, cn \in NewCustomerNames :
          UpdateMultipleProductsOrderTool(id, l, cn)
    \/ Tick

SpecNoChange == Init /\ [][NextNoChange]_vars

\* a single-item update that names no other product and no other quantity
\* than the order row holds
ChangesNothing(call, row) ==
    /\ \/ call.name = NoText
       \/ Lower(call.name) = Lower(CellText(row.product))
    /\ \/ ~call.items[1].some
       \/ /\ PyInt(CellText(row.quantity)).ok
          /\ call.items[1].v = PyInt(CellText(row.quantity)).v

\* the cells of the row other than the customer name and the quantity
OtherCellsKept(before, after) ==
    /\ after.order_id = before.order_id
    /\ after.product = before.product
    /\ after.status = before.status

C31_LedgerConservation ==
    [][\A i \in 1..Len(inventory) :
          (NumericCell(inventory[i].quantity)
             /\ NumericCell(inventory'[i].quantity))
          => StockValue(inventory'[i].quantity) + PendingTotal(orders', i)
             = StockValue(inventory[i].quantity) + PendingTotal(orders, i)]_vars

(***************************************************************************)
(* C32: order ids are unique.  Any two distinct order rows, created by the *)
(* single-item or the multi-item create in any order and at any times,     *)
(* carry different order ids.                                              *)
(***************************************************************************)
C32_UniqueOrderIds ==
    \A j, k \in 1..Len(orders) :
       j # k => CellText(orders[j].order_id) # CellText(orders[k].order_id)

(***************************************************************************)
(* C33: a create, single-item or multi-item, that repeats the arguments of *)
(* the preceding create within 30 seconds is answered duplicate_prevention *)
(* only when that preceding create made the order: when it ended in        *)
(* product_not_found, insufficient_stock, missing_configuration or         *)
(* processing_failed, the retry is processed again.                        *)
(***************************************************************************)
C33_RetryAfterErrorProcessed ==
    [][\A op \in {"create", "multi_create"} :
          (/\ last.op = op
           /\ IsCall(op)
           /\ last.res \in {"product_not_found", "insufficient_stock",
                            "missing_configuration", "processing_failed"}
           /\ last'.customer = last.customer
           /\ last'.name = last.name
           /\ last'.qty = last.qty
           /\ last'.t - last.t < DedupeWindow)
          => last'.res # "duplicate_prevention"]_vars

(***************************************************************************)
(* C34: a single-item update with a product change that returns            *)
(* new_product_not_found or insufficient_stock for the new product has     *)
(* modified no inventory cell: the old product's stock has not been        *)
(* increased while the order row still names the old product.              *)
(***************************************************************************)
C34_RejectedChangeWritesNothing ==
    [][(/\ IsCall("update")
        /\ last'.res \in {"new_product_not_found", "insufficient_stock"}
        /\ Addressed(last'.order_id) # 0
        /\ ProductChanged(last'.name,
              CellText(orders[Addressed(last'.order_id)].product)))
       => inventory' = inventory]_vars

(***************************************************************************)
(* C35: updates respect terminal states.  A single-item or multi-item      *)
(* update of an order whose status is Cancelled or Delivered changes no    *)
(* inventory quantity.                                                     *)
(***************************************************************************)
C35_UpdateRespectsTerminal ==
    [][\A op \in {"update", "multi_update"} :
          (/\ IsCall(op)
           /\ Addressed(last'.order_id) # 0
           /\ Lower(StatusOf(last'.order_id))
                 \in {Lower(Cancelled), Lower(Delivered)})
          => inventory' = inventory]_vars

(***************************************************************************)
(* Inventory sheets as owners lay them out: an entirely blank row above or *)
(* between the products, and a quantity column under any header that the   *)
(* classifier takes for the quantity role.                                 *)
(***************************************************************************)
BlankRow == [product |-> Txt(NoText), quantity |-> Txt(NoText), price |-> Txt(NoText)]
GelRow == [product |-> Txt(Gel), quantity |-> Num(MaxStock), price |-> Num(5)]
GelXLRow == [product |-> Txt(GelXL), quantity |-> Num(MaxQty), price |-> Num(5)]

LayoutInventories ==
    {<<GelRow, GelXLRow>>, <<BlankRow, GelRow, GelXLRow>>,
     <<GelRow, BlankRow, GelXLRow>>}

QuantityColumnNames == {QuantityColumn, AvailableColumn, UnitsColumn, InStockColumn}

\* the row dictionary get_sheet_data builds under the headers, as the entries
\* smart_column_detection goes through
HeaderEntries(headers) == [j \in DOMAIN headers |-> [key |-> headers[j], value |-> NoText]]

\* header rows whose second column the classifier detects as the quantity
LayoutHeaders ==
    {headers \in {<<ProductColumn, h, PriceColumn>> : h \in QuantityColumnNames} :
        LET detected_cols == SmartColumnDetection(HeaderEntries(headers), "all")
        IN /\ {"product_name", "quantity"} \subseteq DOMAIN detected_cols
           /\ detected_cols["product_name"] = 1
           /\ detected_cols["quantity"] = 2}

InitLayout ==
    /\ inventory \in LayoutInventories
    /\ orders = <<>>
    /\ recent_single = {}
    /\ recent_multi = {}
    /\ now = 0
    /\ ticks = 0
    /\ last = NoCall
    /\ inflight = NoInflight
    /\ data_row = <<>>
    /\ column_type = "none"
    /\ result = NoResult
    /\ orders_headers = <<>>
    /\ order_row_data = <<>>
    /\ inventory_headers \in LayoutHeaders

LayoutQueries == {LowerGel, XL}

NextLayout ==
    \/ \E c \in Customers, p \in LayoutQueries, q \in Quantities :
          ProcessCustomerOrder(c, p, q)
    \/ Tick

SpecLayout == InitLayout /\ [][NextLayout]_vars

\* the positions in the sheet of the rows that the reader keeps
KeptRows(rows) ==
    SelectSeq([k \in 1..Len(rows) |-> k],
              LAMBDA k : \E h \in DOMAIN rows[k] : CellText(rows[k][h]) # NoText)

\* the position in the sheet of the i-th row of the data read from it
SheetRowOf(rows, i) == KeptRows(rows)[i]

(***************************************************************************)
(* C36: every inventory quantity write targets the cell the matched        *)
(* product's quantity was read from, also with blank rows above the        *)
(* product and under every header the classifier accepts for the quantity  *)
(* role: a single-item create that reports success for a numerically       *)
(* tracked product has set that product's own quantity cell to the stock   *)
(* read minus the quantity ordered and has changed no other cell.          *)
(***************************************************************************)
C36_WriteTargetsReadCell ==
    [][(/\ IsCall("create")
        /\ last'.res = "success"
        /\ last'.row # 0
        /\ NumericCell(inventory[SheetRowOf(inventory, last'.row)].quantity))
       => LET r == SheetRowOf(inventory, last'.row)
              S == StockValue(inventory[r].quantity)
          IN /\ inventory'[r] = [inventory[r] EXCEPT
                                    !.quantity = Txt(IntToStr(S - last'.qty))]
             /\ \A k \in 1..Len(inventory) : k # r => inventory'[k] = inventory[k]]_vars

(***************************************************************************)
(* Inventories whose product names contain one another, in every row       *)
(* order, and the queries a caller may give for them.                      *)
(***************************************************************************)
LookupNames == {Gel, GelXL, XL}

LookupInventories ==
    {rows \in [1..Cardinality(LookupNames) ->
                  {[product |-> Txt(name), quantity |-> Num(MaxStock),
                    price |-> Num(5)] : name \in LookupNames}] :
        \A i, k \in DOMAIN rows : i # k => rows[i] # rows[k]}

LookupQueries == {LowerGel, XL, GelXL, <<"l">>, NoText}

InitLookup ==
    /\ inventory \in LookupInventories
    /\ orders = <<>>
    /\ recent_single = {}
    /\ recent_multi = {}
    /\ now = 0
    /\ ticks = 0
    /\ last = NoCall
    /\ inflight = NoInflight
    /\ data_row = <<>>
    /\ column_type = "none"
    /\ result = NoResult
    /\ orders_headers = <<>>
    /\ order_row_data = <<>>
    /\ inventory_headers = InventoryHeaders

NextLookup ==
    \/ \E c \in Customers, p \in LookupQueries, q \in Quantities :
          ProcessCustomerOrder(c, p, q)
    \/ \E id \in KnownOrderIds : CancelCustomerOrder(id)

SpecLookup == InitLookup /\ [][NextLookup]_vars

(***************************************************************************)
(* C37: with first-match case-insensitive substring lookup, the cancel of  *)
(* an order finds, for the product name stored on the order, the inventory *)
(* row that the create found for its query, and restores to the cell the   *)
(* create deducted from: for product names that contain one another in    *)
(* either row order and for every query.                                   *)
(***************************************************************************)
C37_CancelFindsCreateRow ==
    [][(/\ last.op = "create"
        /\ last.appends = 1
        /\ Addressed(last.order_id) = Len(orders)
        /\ IsCall("cancel")
        /\ last'.order_id = last.order_id
        /\ last'.res = "success")
       => /\ last'.row = last.row
          /\ last'.row = Matched(last.name)
          /\ last.writes = 1
             => /\ last'.writes = 1
                /\ StockValue(inventory'[last.row].quantity)
                      = StockValue(inventory[last.row].quantity) + last.qty
                /\ \A k \in 1..Len(inventory) :
                      k # last.row => inventory'[k] = inventory[k]]_vars

\* a query for 'gel' on an inventory that lists Gel XL above Gel was served
\* from the Gel XL row, and the cancel of that order restored the same row
C37_Witness ==
    /\ last.op = "cancel"
    /\ last.res = "success"
    /\ last.row = 1
    /\ last.writes = 1
    /\ CellText(inventory[1].product) = GelXL
    /\ CellText(inventory[2].product) = Gel
    /\ CellText(orders[Addressed(last.order_id)].product) = GelXL
    /\ StockValue(inventory[1].quantity) = MaxStock
    /\ inventory[2].quantity = Num(MaxStock)

(***************************************************************************)
(* C38: after a successful multi-item update with a new products list the  *)
(* net change of each numerically tracked product's stock equals its old   *)
(* order quantity minus its new order quantity, and the order row's        *)
(* product and quantity lists are the new list: as many items, holding for *)
(* every inventory row the quantity the new list asks of it.               *)
(***************************************************************************)
C38_UpdateKeepsRowAndStockAgreed ==
    [][(/\ IsCall("multi_update")
        /\ last'.res = "success"
        /\ last'.name # NoText)
       => LET j == Addressed(last'.order_id)
              old == ParseStoredProducts(CellText(orders[j].product),
                                         CellText(orders[j].quantity))
              new == last'.items
              stored == ParseStoredProducts(CellText(orders'[j].product),
                                            CellText(orders'[j].quantity))
          IN /\ \A i \in 1..Len(inventory) :
                   (NumericCell(inventory[i].quantity)
                      /\ NumericCell(inventory'[i].quantity))
                   => StockValue(inventory'[i].quantity)
                         - StockValue(inventory[i].quantity)
                      = OrderedFor(old, i) - OrderedFor(new, i)
             /\ Len(stored) = Len(new)
             /\ \A i \in 1..Len(inventory) :
                   OrderedFor(stored, i) = OrderedFor(new, i)]_vars

(***************************************************************************)
(* Interleaved cancels and updates.  Like the creates above, a cancel or a *)
(* single-item update in flight takes one spreadsheet round trip per step  *)
(* and keeps what it has read; nothing orders the round trips of two       *)
(* invocations against each other.                                         *)
(***************************************************************************)
\* the invocation returns: its response becomes the latest call
ReturnOf(p, res) ==
    /\ inflight' = [inflight EXCEPT ![p].pc = "done", ![p].res = res]
    /\ last' = [Call(inflight[p].op, res) EXCEPT
                    !.order_id = inflight[p].order_id,
                    !.name = inflight[p].new_name,
                    !.writes = inflight[p].writes]

\* the invocation goes on to its next round trip
Goto(p, pc) ==
    /\ inflight' = [inflight EXCEPT ![p].pc = pc]
    /\ UNCHANGED last

\* cancel_customer_order_tool is invoked
BeginCancel(p, order_id) ==
    /\ inflight[p].pc = "idle"
    /\ UNCHANGED <<classifier, reconciler, inventory_headers>>
    /\ inflight' = [inflight EXCEPT ![p].op = "cancel", ![p].order_id = order_id,
                        ![p].pc = "cancel_read_orders"]
    /\ UNCHANGED <<inventory, orders, recent_single, recent_multi, now, ticks, last>>

\* Steps 1 to 3: get_sheet_data of the orders sheet, the order is looked up
\* and its status checked
CancelReadOrders(p) ==
    LET orders_data == GetSheetData(orders)
        j == FindOrder(orders_data, inflight[p].order_id)
        order == orders_data[j]
        oq == PyInt(order.quantity)
        status_error == CancelStatusError(Strip(order.status))
    IN
    /\ inflight[p].pc = "cancel_read_orders"
    /\ UNCHANGED <<classifier, reconciler, inventory_headers>>
    /\ UNCHANGED <<inventory, orders, recent_single, recent_multi, now, ticks>>
    /\ IF j = 0 THEN ReturnOf(p, "order_not_found")
       ELSE IF ~oq.ok THEN ReturnOf(p, "cancellation_failed")
       ELSE IF status_error # "proceed" THEN ReturnOf(p, status_error)
       ELSE /\ inflight' = [inflight EXCEPT ![p].name = order.product,
                               ![p].qty = oq.v, ![p].order_row = j,
                               ![p].pc = IF order.product # NoText /\ oq.v > 0
                                         THEN "cancel_read_inventory"
                                         ELSE "cancel_write_status"]
            /\ UNCHANGED last

\* Step 4: get_sheet_data of the inventory sheet, the product is looked up
CancelReadInventory(p) ==
    LET inventory_data == GetSheetData(inventory)
        i == FindProduct(inventory_data, inflight[p].name)
    IN
    /\ inflight[p].pc = "cancel_read_inventory"
    /\ UNCHANGED <<classifier, reconciler, inventory_headers>>
    /\ inflight' = [inflight EXCEPT ![p].inventory_data = inventory_data,
                        ![p].pc = IF i # 0 /\ CancelStockOf(inventory_data[i].quantity).ok
                                  THEN "cancel_write_inventory"
                                  ELSE "cancel_write_status"]
    /\ UNCHANGED <<inventory, orders, recent_single, recent_multi, now, ticks, last>>

\* Step 4: new_stock = current_stock + quantity_to_restore is written
CancelWriteInventory(p) ==
    /\ inflight[p].pc = "cancel_write_inventory"
    /\ UNCHANGED <<classifier, reconciler, inventory_headers>>
    /\ inventory' = UpdateQuantityCell(inventory, ProductRowIndex(ReadRow(p)),
                        CancelStockOf(ReadItem(p).quantity).v + inflight[p].qty)
    /\ inflight' = [inflight EXCEPT ![p].pc = "cancel_write_status",
                        ![p].writes = @ + 1]
    /\ UNCHANGED <<orders, recent_single, recent_multi, now, ticks, last>>

\* Step 5: the status cell is set to Cancelled, then the response is built
CancelWriteStatus(p) ==
    /\ inflight[p].pc = "cancel_write_status"
    /\ UNCHANGED <<classifier, reconciler, inventory_headers>>
    /\ orders' = MarkCancelled(orders, OrderRowIndex(inflight[p].order_row))
    /\ ReturnOf(p, "success")
    /\ UNCHANGED <<inventory, recent_single, recent_multi, now, ticks>>

\* update_customer_order_tool is invoked
BeginUpdate(p, order_id, new_product_name, new_quantity) ==
    /\ inflight[p].pc = "idle"
    /\ UNCHANGED <<classifier, reconciler, inventory_headers>>
    /\ inflight' = [inflight EXCEPT ![p].op = "update", ![p].order_id = order_id,
                        ![p].new_name = new_product_name,
                        ![p].new_quantity = new_quantity,
                        ![p].pc = "update_read_orders"]
    /\ UNCHANGED <<inventory, orders, recent_single, recent_multi, now, ticks, last>>

\* Steps 1 to 3: get_sheet_data of the orders sheet, the order is looked up
UpdateReadOrders(p) ==
    LET orders_data == GetSheetData(orders)
        j == FindOrder(orders_data, inflight[p].order_id)
        order == orders_data[j]
        cq == PyInt(order.quantity)
    IN
    /\ inflight[p].pc = "update_read_orders"
    /\ UNCHANGED <<classifier, reconciler, inventory_headers>>
    /\ UNCHANGED <<inventory, orders, recent_single, recent_multi, now, ticks>>
    /\ IF j = 0 THEN ReturnOf(p, "order_not_found")
       ELSE IF IsMultipleProductsOrder(order.quantity, order.product)
       THEN ReturnOf(p, "multiple_products_order_detected")
       ELSE IF ~cq.ok THEN ReturnOf(p, "update_failed")
       ELSE /\ inflight' = [inflight EXCEPT ![p].name = order.product,
                               ![p].qty = cq.v, ![p].order_row = j,
                               ![p].pc = "update_read_inventory"]
            /\ UNCHANGED last

\* what the update in flight decided from its arguments and from what it
\* read: product_changed and final_quantity of Step 3, the rows of the old
\* and the new product in the inventory read, and the order row write that
\* comes next
UpdatePlan(p, data) ==
    LET product_changed == ProductChanged(inflight[p].new_name, inflight[p].name)
    IN [product_changed |-> product_changed,
        final_quantity |-> IF inflight[p].new_quantity.some
                           THEN inflight[p].new_quantity.v ELSE inflight[p].qty,
        quantity_changed |-> /\ inflight[p].new_quantity.some
                             /\ inflight[p].new_quantity.v # inflight[p].qty,
        old_row |-> FindProduct(data, inflight[p].name),
        new_row |-> FindProduct(data, inflight[p].new_name),
        row_write |-> IF product_changed THEN "update_write_product"
                      ELSE IF inflight[p].new_quantity.some
                      THEN "update_write_quantity"
                      ELSE "update_return"]

\* product change, second half on the inventory that was read: the new
\* product is looked up and checked; the deduction is the next round trip
FindNewProduct(p, data) ==
    LET k == UpdatePlan(p, data).new_row
        new_stock == StockOf(data[k].quantity)
    IN IF k = 0 THEN ReturnOf(p, "new_product_not_found")
       ELSE IF new_stock.ok /\ new_stock.v < UpdatePlan(p, data).final_quantity
       THEN ReturnOf(p, "insufficient_stock")
       ELSE Goto(p, IF new_stock.ok THEN "update_deduct_new"
                    ELSE UpdatePlan(p, data).row_write)

\* Step 4: get_sheet_data of the inventory sheet, then everything up to the
\* first write
UpdateReadInventory(p) ==
    LET inventory_data == GetSheetData(inventory)
        read == [inflight EXCEPT ![p].inventory_data = inventory_data]
        plan == UpdatePlan(p, inventory_data)
        i == plan.old_row
        k == plan.new_row
        cur_stock == StockOf(inventory_data[i].quantity)
        new_stock == StockOf(inventory_data[k].quantity)
        returns(res) ==
            /\ inflight' = [read EXCEPT ![p].pc = "done", ![p].res = res]
            /\ last' = [Call("update", res) EXCEPT
                            !.order_id = inflight[p].order_id,
                            !.name = inflight[p].new_name]
        goes(pc) == inflight' = [read EXCEPT ![p].pc = pc] /\ UNCHANGED last
    IN
    /\ inflight[p].pc = "update_read_inventory"
    /\ UNCHANGED <<classifier, reconciler, inventory_headers>>
    /\ UNCHANGED <<inventory, orders, recent_single, recent_multi, now, ticks>>
    /\ IF plan.product_changed
       THEN IF inflight[p].name # NoText /\ i # 0 /\ cur_stock.ok
            THEN goes("update_restore_old")
            ELSE IF k = 0 THEN returns("new_product_not_found")
            ELSE IF new_stock.ok /\ new_stock.v < plan.final_quantity
            THEN returns("insufficient_stock")
            ELSE goes(IF new_stock.ok THEN "update_deduct_new" ELSE plan.row_write)
       ELSE IF plan.quantity_changed /\ i # 0 /\ cur_stock.ok
       THEN IF IncreaseRejected(cur_stock.v, inflight[p].qty,
                                inflight[p].new_quantity.v)
            THEN returns("insufficient_stock")
            ELSE goes("update_adjust")
       ELSE goes(plan.row_write)

\* Step 5, first: the old product's stock read plus the order's quantity is
\* written; then the new product is looked up in the inventory read before
UpdateRestoreOld(p) ==
    /\ inflight[p].pc = "update_restore_old"
    /\ UNCHANGED <<classifier, reconciler, inventory_headers>>
    /\ inventory' = RestoreOldProduct(inventory, inflight[p].inventory_data,
                                      inflight[p].name, inflight[p].qty)
    /\ FindNewProduct(p, inflight[p].inventory_data)
    /\ UNCHANGED <<orders, recent_single, recent_multi, now, ticks>>

\* Step 5, second: the new product's stock read minus the final quantity is
\* written
UpdateDeductNew(p) ==
    LET data == inflight[p].inventory_data
        k == UpdatePlan(p, data).new_row
    IN
    /\ inflight[p].pc = "update_deduct_new"
    /\ UNCHANGED <<classifier, reconciler, inventory_headers>>
    /\ inventory' = UpdateQuantityCell(inventory, ProductRowIndex(k),
                        StockOf(data[k].quantity).v - UpdatePlan(p, data).final_quantity)
    /\ Goto(p, UpdatePlan(p, data).row_write)
    /\ UNCHANGED <<orders, recent_single, recent_multi, now, ticks>>

\* Step 6: the stock read minus the quantity difference is written
UpdateAdjust(p) ==
    LET data == inflight[p].inventory_data
        i == UpdatePlan(p, data).old_row
    IN
    /\ inflight[p].pc = "update_adjust"
    /\ UNCHANGED <<classifier, reconciler, inventory_headers>>
    /\ inventory' = UpdateQuantityCell(inventory, ProductRowIndex(i),
                        AdjustedStock(StockOf(data[i].quantity).v, inflight[p].qty,
                                      inflight[p].new_quantity.v))
    /\ Goto(p, UpdatePlan(p, data).row_write)
    /\ UNCHANGED <<orders, recent_single, recent_multi, now, ticks>>

\* Step 7: the product cell of the order row is written
UpdateWriteProduct(p) ==
    LET data == inflight[p].inventory_data
    IN
    /\ inflight[p].pc = "update_write_product"
    /\ UNCHANGED <<classifier, reconciler, inventory_headers>>
    /\ orders' = UpdateOrderCell(orders, OrderRowIndex(inflight[p].order_row),
                                 "product", data[UpdatePlan(p, data).new_row].product)
    /\ Goto(p, IF inflight[p].new_quantity.some THEN "update_write_quantity"
               ELSE "update_return")
    /\ UNCHANGED <<inventory, recent_single, recent_multi, now, ticks>>

\* Step 7: the quantity cell of the order row is written
UpdateWriteQuantity(p) ==
    /\ inflight[p].pc = "update_write_quantity"
    /\ UNCHANGED <<classifier, reconciler, inventory_headers>>
    /\ orders' = UpdateOrderCell(orders, OrderRowIndex(inflight[p].order_row),
                                 "quantity", IntToStr(inflight[p].new_quantity.v))
    /\ Goto(p, "update_return")
    /\ UNCHANGED <<inventory, recent_single, recent_multi, now, ticks>>

\* Step 8: the success response is built
UpdateReturn(p) ==
    /\ inflight[p].pc = "update_return"
    /\ UNCHANGED <<classifier, reconciler, inventory_headers>>
    /\ ReturnOf(p, "success")
    /\ UNCHANGED <<inventory, orders, recent_single, recent_multi, now, ticks>>

InterleavedNewNames == {NoText, XL}

NextInterleaved ==
    \/ \E q \in Quantities :
          inflight = NoInflight /\ ProcessCustomerOrder(Ali, LowerGel, q)
    \/ \E p \in Invocations, q \in Quantities : BeginCreate(p, Sara, LowerGel, q)
    \/ \E p \in Invocations : ReadInventorySheet(p)
    \/ \E p \in Invocations : ReadOrdersSheet(p)
    \/ \E p \in Invocations : WriteQuantity(p)
    \/ \E p \in Invocations : AppendOrderRow(p)
    \/ \E p \in Invocations, id \in KnownOrderIds : BeginCancel(p, id)
    \/ \E p \in Invocations : CancelReadOrders(p)
    \/ \E p \in Invocations : CancelReadInventory(p)
    \/ \E p \in Invocations : CancelWriteInventory(p)
    \/ \E p \in Invocations : CancelWriteStatus(p)
    \/ \E p \in Invocations, id \in KnownOrderIds, n \in InterleavedNewNames,
          q \in NewQuantities : BeginUpdate(p, id, n, q)
    \/ \E p \in Invocations : UpdateReadOrders(p)
    \/ \E p \in Invocations : UpdateReadInventory(p)
    \/ \E p \in Invocations : UpdateRestoreOld(p)
    \/ \E p \in Invocations : UpdateDeductNew(p)
    \/ \E p \in Invocations : UpdateAdjust(p)
    \/ \E p \in Invocations : UpdateWriteProduct(p)
    \/ \E p \in Invocations : UpdateWriteQuantity(p)
    \/ \E p \in Invocations : UpdateReturn(p)

SpecInterleaved == Init /\ [][NextInterleaved]_vars

\* C39: an order's quantity is restored to the inventory at most once, even
\* when two cancels of the same order are interleaved at the granularity of
\* spreadsheet round trips: never have two invocations cancelling the same
\* order row both passed the status check and both written the restored stock.
C39_RestoredAtMostOnce ==
    \A p, r \in Invocations :
       (/\ p # r
        /\ inflight[p].op = "cancel" /\ inflight[r].op = "cancel"
        /\ inflight[p].order_id = inflight[r].order_id
        /\ inflight[p].order_row = inflight[r].order_row)
       => ~(inflight[p].writes = 1 /\ inflight[r].writes = 1)

(***************************************************************************)
(* C40: stock never goes negative, even under races.  In every reachable   *)
(* state, under any interleaving of create, update and cancel invocations  *)
(* with positive quantities, every numerically tracked product's quantity  *)
(* cell holds a value >= 0.                                                *)
(***************************************************************************)
C40_StockNeverNegative ==
    \A i \in 1..Len(inventory) :
       NumericCell(inventory[i].quantity) => StockValue(inventory[i].quantity) >= 0


\* two interleaved creates read the same stock, together sold more than it,
\* and the later write left the cell at 0
C40_Witness ==
    /\ \A p \in Invocations :
          /\ inflight[p].pc = "done" /\ inflight[p].res = "success"
          /\ inflight[p].customer = Sara
    /\ inflight[1].inventory_data = inflight[2].inventory_data
    /\ inflight[1].qty + inflight[2].qty > ReadAvailable(1)
    /\ NumericCell(inventory[ReadRow(1)].quantity)
    /\ StockValue(inventory[ReadRow(1)].quantity) = 0

====
